---- MODULE Spec2Model ----
(***************************************************************************)
(* A model of the persistence glue of the mentor board: the board view     *)
(* (load on mount, interval/debounce/manual save), the template load, the  *)
(* dashboard's board list and the chat panel's handling of model replies.  *)
(* The canvas engine and the backend are modelled by what the code relies  *)
(* on: loadSnapshot may throw, createShape may throw, an UPDATE replaces    *)
(* the column, requests are answered in any order.                          *)
(***************************************************************************)
EXTENDS Integers, Sequences, FiniteSets, TLC

\* ------------------------------------------------------------------ bounds
MaxUserShapes == 2      \* shapes the user draws before the model stops adding
MaxSaves == 2           \* save writes issued in one behaviour
MaxMounts == 2          \* times the board view is opened
MaxBoards == 2          \* board rows the backend can hold
MaxLoads == 2           \* template loads started in one behaviour
MaxSends == 1           \* chat or script submissions in one behaviour
MaxReplyLen == 3        \* pieces of text in one model reply
MaxNameLen == 2         \* characters typed into the new board's name
MaxPayloadShapes == 2   \* shapes one payload of the model describes
MaxCoord == 1           \* the largest number a payload gives for a field
MaxImages == 2          \* images picked for upload in one behaviour
MaxTemplates == 3       \* rows public.templates can hold
MaxChatRows == 4        \* rows public.board_chats can hold

\* BoardView.tsx:266-304: the welcome board is three createShape calls
WelcomeShapes == 3

ShapeIds == 1..(MaxUserShapes + WelcomeShapes + (MaxSends + 1) * MaxPayloadShapes)
Cameras == {0, 1}

\* ------------------------------------------------------- optional values
\* A JSON field that may be missing: <<>> is "absent", <<v>> is the value v.
Absent == <<>>
Some(v) == <<v>>
IsPresent(o) == o # <<>>
Get(o) == o[1]

\* ------------------------------------------------------------- the blob
\* board_data / template_data: the keys the code reads or writes.
EmptyBlob ==
    [storeSnapshot |-> Absent, camera |-> Absent, shapes |-> Absent, metadata |-> Absent]

\* Object.keys(blob)
ObjectKeys(b) == {k \in DOMAIN b : IsPresent(b[k])}

\* The smallest shape id not on the page: createShape is called without an id.
FreshId(pg) == CHOOSE i \in ShapeIds \ pg : \A j \in ShapeIds \ pg : i <= j

\* The shape drawn last. Shapes carry nothing but their identity here, so
\* erasing this one stands for erasing any one.
LastId(pg) == CHOOSE i \in pg : \A j \in pg : j <= i

\* SetToSeq: the page's shapes in id order (getCurrentPageShapes).
RECURSIVE PageShapes(_)
PageShapes(pg) ==
    IF pg = {} THEN <<>>
    ELSE LET m == CHOOSE i \in pg : \A j \in pg : i <= j
         IN <<m>> \o PageShapes(pg \ {m})

\* shapes: editor.getCurrentPageShapes().map(shape => ({id, type, x, y, props, rotation}))
\* A record taken from a live shape is one the engine accepts again.
LegacyShapes(pg) ==
    [i \in 1..Cardinality(pg) |-> [id |-> PageShapes(pg)[i], valid |-> TRUE]]

\* A snapshot taken of a store other than the editor's.
GetSnapshotOfFreshStore(pg) == [store |-> {}, loadable |-> TRUE]

\* editor.store.getSnapshot(): the whole store. loadable says whether this
\* build's loadSnapshot accepts the snapshot or throws; it accepts the ones
\* its own getSnapshot returns.
GetSnapshot(pg) == [store |-> pg, loadable |-> TRUE]

SaveVersion == "2.0"

\* A blob whose shapeCount counts the records of the store, the page and
\* the document records among them, instead of the shapes of the page.
BoardDataCountsStoreRecords(pg, cam) ==
    [storeSnapshot |-> Some(GetSnapshot(pg)),
     camera |-> Some(cam),
     shapes |-> Some(LegacyShapes(pg)),
     metadata |-> Some([version |-> SaveVersion, shapeCount |-> Cardinality(pg) + 2])]

\* boardData as saveBoard and manualSave build it.
BoardData(pg, cam) ==
    [storeSnapshot |-> Some(GetSnapshot(pg)),
     camera |-> Some(cam),
     shapes |-> Some(LegacyShapes(pg)),
     metadata |-> Some([version |-> SaveVersion, shapeCount |-> Cardinality(pg)])]

\* ----------------------------------------------------------- the engine
\* A forEach whose first throwing record ends the whole restore.
RECURSIVE CreateShapesAbortOnThrow(_, _)
CreateShapesAbortOnThrow(list, pg) ==
    IF list = <<>> \/ ~Head(list).valid THEN pg
    ELSE CreateShapesAbortOnThrow(Tail(list), pg \cup {FreshId(pg)})

\* editor.createShape for each record of a legacy list, in order; a record
\* the engine rejects throws inside the forEach's try/catch and is skipped.
RECURSIVE CreateShapes(_, _)
CreateShapes(list, pg) ==
    IF list = <<>> THEN pg
    ELSE CreateShapes(Tail(list),
                      IF Head(list).valid THEN pg \cup {FreshId(pg)} ELSE pg)

\* The three createShape calls of the welcome board.
RECURSIVE CreateN(_, _)
CreateN(n, pg) == IF n = 0 THEN pg ELSE CreateN(n - 1, pg \cup {FreshId(pg)})

\* if (blob.camera) editor.setCamera(blob.camera)
RestoreCamera(b, cam) == IF IsPresent(b.camera) THEN Get(b.camera) ELSE cam

\* metadata?.version || 'legacy'
VersionOf(b) == IF IsPresent(b.metadata) THEN Get(b.metadata).version ELSE "legacy"

\* shapes?.length || 0
LegacyLen(b) == IF IsPresent(b.shapes) THEN Len(Get(b.shapes)) ELSE 0

\* A load that looked at the version tag before trying the snapshot.
TriesSnapshotOfCurrentVersion(b) ==
    IsPresent(b.storeSnapshot) /\ VersionOf(b) = SaveVersion

\* if (blob.storeSnapshot): the code's test for trying loadSnapshot
TriesSnapshot(b) == IsPresent(b.storeSnapshot)

\* loadSnapshot was called and returned without throwing.
SnapshotLoads(b) == TriesSnapshot(b) /\ Get(b.storeSnapshot).loadable

\* if (blob.shapes && blob.shapes.length > 0)
HasLegacyShapes(b) == IsPresent(b.shapes) /\ Len(Get(b.shapes)) > 0

\* if (data.board_data && Object.keys(data.board_data).length > 0)
HasSavedData(b) == Cardinality(ObjectKeys(b)) > 0

NoLog == [path |-> "none", snapshotCalls |-> 0, createCalls |-> 0]

\* handleMount's loadBoardData after the read has answered: the editor's
\* page and camera afterwards, and which calls were made on the way.
LoadBoardData(resp, pg, cam) ==
    IF resp.error
    THEN [page |-> pg, camera |-> cam,
          log |-> [path |-> "error", snapshotCalls |-> 0, createCalls |-> 0]]
    ELSE LET b == resp.board_data IN
      IF HasSavedData(b)
      THEN IF SnapshotLoads(b)
           THEN [page |-> Get(b.storeSnapshot).store,
                 camera |-> RestoreCamera(b, cam),
                 log |-> [path |-> "snapshot", snapshotCalls |-> 1, createCalls |-> 0]]
           ELSE IF HasLegacyShapes(b)
           THEN [page |-> CreateShapes(Get(b.shapes), {}),
                 camera |-> RestoreCamera(b, cam),
                 log |-> [path |-> "legacy",
                          snapshotCalls |-> IF TriesSnapshot(b) THEN 1 ELSE 0,
                          createCalls |-> Len(Get(b.shapes))]]
           ELSE [page |-> pg, camera |-> cam,
                 log |-> [path |-> "nothing",
                          snapshotCalls |-> IF TriesSnapshot(b) THEN 1 ELSE 0,
                          createCalls |-> 0]]
      ELSE [page |-> CreateN(WelcomeShapes, pg), camera |-> cam,
            log |-> [path |-> "welcome", snapshotCalls |-> 0, createCalls |-> 0]]

\* ---------------------------------------------------------------- state
BoardIds == 1..MaxBoards
LoadIds == 1..MaxLoads
IdleLoad ==
    [pc |-> "idle", mine |-> TRUE, read |-> 0, counted |-> FALSE, inserted |-> FALSE,
     loaded |-> FALSE]
Users == {"u1", "u2"}
\* useAuth().user: the identity the session holds
Me == "u1"

Chars == {" ", "a"}
NoName == <<>>

\* What can be typed into the new board's name field.
Names == UNION {[1..n -> Chars] : n \in 0..MaxNameLen}

\* String.prototype.trim
RECURSIVE TrimStart(_)
TrimStart(str) ==
    IF str # <<>> /\ Head(str) = " " THEN TrimStart(Tail(str)) ELSE str
RECURSIVE TrimEnd(_)
TrimEnd(str) ==
    IF str # <<>> /\ str[Len(str)] = " "
    THEN TrimEnd(SubSeq(str, 1, Len(str) - 1)) ELSE str
Trim(str) == TrimEnd(TrimStart(str))

\* The panel's first message when the board has no chat history.
Welcome == [id |-> "welcome", role |-> "assistant", content |-> <<"Hello!">>]
\* No message is waiting for its saveChatMessage.
NoMessage == [id |-> "none", role |-> "assistant", content |-> <<>>]
NoChat ==
    [pc |-> "idle", mode |-> "chat", reply |-> <<>>, ok |-> TRUE, saved |-> FALSE,
     doc |-> <<>>, engine |-> TRUE, calls |-> <<>>, msg |-> NoMessage]
\* loadChatHistory has run and its result is on show.
HistoryShown == [pc |-> "shown", error |-> FALSE, data |-> <<>>]

NoRow == [exists |-> FALSE, user_id |-> Me, name |-> NoName, board_data |-> EmptyBlob]
NoResp == [error |-> FALSE, board_data |-> EmptyBlob]
NothingApplied ==
    [last |-> 0, payload |-> EmptyBlob, boardId |-> 0, epoch |-> 0, count |-> 0,
     highest |-> 0]

VARIABLES
    rows,        \* public.boards: board id -> row
    view,        \* AppContent: currentView, currentBoardId
    boardName,   \* BoardView: boardName
    page,        \* the editor's current page: the set of its shapes
    camera,      \* the editor's camera
    mounted,     \* BoardView: editor is set (handleMount has run)
    epoch,       \* which mount of the board view this is
    room,        \* the board whose sync room the page was last taken from; 0: none
    listening,   \* the auto-save effect is active: interval and store listener
    debounce,    \* saveTimeout is pending
    saving,      \* BoardView: saving
    lastSaved,   \* BoardView: lastSaved, as the id of the save that set it; 0 is null
    saves,       \* save writes issued and not yet settled by the client; count is
                 \* the number of shapes on the page when the write was issued
    nextSave,    \* id of the next save write
    load,        \* handleMount's read of board_data: where it is, what it answered
    loadLog,     \* what the last completed load did
    appliedLog   \* the save write the backend applied last, and the highest id applied

boardVars == <<rows, view, boardName, page, camera, mounted, epoch, room, listening,
               debounce, saving, lastSaved, saves, nextSave, load, loadLog, appliedLog>>

VARIABLES
    tmpl,        \* the public.templates row being loaded: template_data, usage_count
    usage0,      \* its usage_count before any load of this behaviour
    usageRows,   \* rows inserted into public.template_usage
    rowLock,     \* which increment_template_usage call holds the row's lock; 0: none
    tl,          \* TemplatesPanel.handleLoadTemplate calls: load id -> progress
    tmplLog      \* what the last BoardView.handleLoadTemplate did

tmplVars == <<tmpl, usage0, usageRows, rowLock, tl, tmplLog>>

VARIABLES
    messages,    \* MentorChatPanel: messages, each a role and a content
    isLoading,   \* MentorChatPanel: isLoading
    chat,        \* the sendMessage / processScript call under way: where it is
    chatRows,    \* public.board_chats: the rows inserted, in order
    sends,       \* submissions accepted so far
    apiKey,      \* import.meta.env.VITE_OPENAI_API_KEY holds a key
    hist         \* the loadChatHistory call: where it is, what it answered

chatVars == <<messages, isLoading, chat, chatRows, sends, apiKey, hist>>

VARIABLES
    boards,      \* Dashboard: boards, the list on screen (board ids, newest first)
    dashUp,      \* a Dashboard is mounted
    fetch,       \* its fetchBoards call: where it is, what it answered
    dels,        \* deleteBoard calls: board id -> progress and the list the call closed over
    create,      \* its createBoard call: where it is, the name typed, the list closed over
    created,     \* the board createBoard made last, the name typed and the mount that opens it
    deletedOk    \* boards whose deleteBoard has run to its end after a successful delete

dashVars == <<boards, dashUp, fetch, dels, create, created, deletedOk>>

VARIABLES
    objects,           \* storage bucket board-images: the images whose object exists
    imageRows,         \* public.board_images: the images that have a row
    uploadedImageUrls, \* MentorChatPanel: uploadedImageUrls, the records on show
    uploadedImages,    \* MentorChatPanel: uploadedImages, the files on show
    uploads,           \* handleFileUpload calls: image -> progress
    removals           \* removeImage promise chains: image -> progress

imgVars == <<objects, imageRows, uploadedImageUrls, uploadedImages, uploads, removals>>

VARIABLES
    templateRows, \* public.templates: template id -> row
    templates,    \* TemplatesPanel: templates, the saved templates on show
    tfetch,       \* its loadTemplates call: where it is, what it answered
    modal         \* SaveTemplateModal: open, error, saving, and its handleSave call

libVars == <<templateRows, templates, tfetch, modal>>

VARIABLES
    user,        \* useAuth().user: the identity held, or none
    authLoading  \* useAuth().loading: the session has not been looked up yet

authVars == <<user, authLoading>>

vars == <<boardVars, tmplVars, chatVars, dashVars, imgVars, libVars, authVars>>

\* What the actions of one component leave alone: the other components.
boardRest == <<tmplVars, chatVars, dashVars, imgVars, libVars, authVars>>
tmplRest == <<chatVars, dashVars, imgVars, libVars, authVars>>
chatRest == <<tmplVars, dashVars, imgVars, libVars, authVars>>
dashRest == <<tmplVars, chatVars, imgVars, libVars, authVars>>
imgRest == <<boardVars, tmplVars, chatVars, dashVars, libVars, authVars>>
libRest == <<boardVars, tmplVars, chatVars, dashVars, imgVars, authVars>>


cur == view.currentBoardId

\* --------------------------------------------------------- the auth gate
NoUser == "none"

\* An AppContent that looks at the view before it looks at the user.
ScreenViewFirst ==
    IF authLoading THEN "loading"
    ELSE IF view.currentView = "board" /\ view.currentBoardId # 0 THEN "board"
    ELSE IF user = NoUser THEN "auth"
    ELSE "dashboard"

\* What AppContent returns: if (loading) the spinner; if (!user) <AuthPage />;
\* if (currentView === 'board' && currentBoardId) <BoardView />; else
\* <Dashboard />.
Screen ==
    IF authLoading THEN "loading"
    ELSE IF user = NoUser THEN "auth"
    ELSE IF view.currentView = "board" /\ view.currentBoardId # 0 THEN "board"
    ELSE "dashboard"

\* The session is signed in: what every component below the gate runs under.
SignedIn == user = Me /\ authLoading = FALSE

\* ------------------------------------------------------ board view: load
\* BoardView's first effect: select * ... single(), then setBoardName(data.name).
LoadBoardMeta ==
    /\ view.currentView = "board"
    /\ rows[cur].exists
    /\ rows[cur].user_id = Me
    /\ boardName # rows[cur].name
    /\ boardName' = rows[cur].name
    /\ UNCHANGED <<rows, view, page, camera, mounted, epoch, room, listening, debounce,
                   saving, lastSaved, saves, nextSave, load, loadLog, appliedLog>>
    /\ UNCHANGED boardRest

\* handleMount: setEditor(editor) and the read of board_data is issued.
\* The store is the sync room "board-<id>": it comes up with what the room
\* holds, the page of the last visit to this board or nothing.
HandleMount ==
    /\ Screen = "board"
    /\ ~mounted
    /\ epoch < MaxMounts
    /\ mounted' = TRUE
    /\ epoch' = epoch + 1
    /\ page' \in {{}} \cup (IF room = cur /\ Cardinality(page) <= MaxUserShapes
                            THEN {page} ELSE {})
    /\ room' = cur
    /\ load' = [pc |-> "sent", resp |-> NoResp]
    /\ loadLog' = NoLog
    /\ UNCHANGED <<rows, view, boardName, camera, listening, debounce, saving,
                   lastSaved, saves, nextSave, appliedLog>>
    /\ UNCHANGED boardRest

\* The backend answers the read: the row as it is now, or an error.
\* RLS "Users can view own boards": a row of another user is not found.
ServeLoad ==
    /\ load.pc = "sent"
    /\ \/ /\ rows[cur].exists /\ rows[cur].user_id = Me
          /\ load' = [pc |-> "resp",
                      resp |-> [error |-> FALSE, board_data |-> rows[cur].board_data]]
       \/ load' = [pc |-> "resp", resp |-> [error |-> TRUE, board_data |-> EmptyBlob]]
    /\ UNCHANGED <<rows, view, boardName, page, camera, mounted, epoch, room, listening,
                   debounce, saving, lastSaved, saves, nextSave, loadLog, appliedLog>>
    /\ UNCHANGED boardRest

\* A listener that leaves the timer alone.
HandleChangeIgnored(pg, cam) == debounce

\* editor.store.listen(handleChange): clearTimeout; setTimeout(saveBoard, 2000)
HandleChange(pg, cam) ==
    IF listening /\ (pg # page \/ cam # camera) THEN TRUE ELSE debounce

\* The rest of loadBoardData, run when the read has answered.
LoadContinue ==
    /\ load.pc = "resp"
    /\ LET r == LoadBoardData(load.resp, page, camera) IN
         /\ page' = r.page
         /\ camera' = r.camera
         /\ loadLog' = r.log
         /\ debounce' = HandleChange(r.page, r.camera)
    /\ load' = [load EXCEPT !.pc = "done"]
    /\ UNCHANGED <<rows, view, boardName, mounted, epoch, room, listening, saving,
                   lastSaved, saves, nextSave, appliedLog>>
    /\ UNCHANGED boardRest

\* ------------------------------------------------- board view: auto-save
\* The auto-save effect runs once editor is set: setInterval and store.listen.
AutoSaveEffect ==
    /\ mounted
    /\ ~listening
    /\ listening' = TRUE
    /\ UNCHANGED <<rows, view, boardName, page, camera, mounted, epoch, room, debounce,
                   saving, lastSaved, saves, nextSave, load, loadLog, appliedLog>>
    /\ UNCHANGED boardRest

\* The user draws or erases: a store change.
UserEdit ==
    /\ mounted
    /\ \/ /\ Cardinality(page) < MaxUserShapes
          /\ page' = page \cup {FreshId(page)}
       \/ /\ page # {}
          /\ page' = page \ {LastId(page)}
    /\ camera' = camera
    /\ debounce' = HandleChange(page', camera')
    /\ UNCHANGED <<rows, view, boardName, mounted, epoch, room, listening, saving,
                   lastSaved, saves, nextSave, load, loadLog, appliedLog>>
    /\ UNCHANGED boardRest

\* saveBoard / manualSave up to the await: setSaving(true), the snapshot is
\* taken and the update is issued.
SaveRequest(src) ==
    [id |-> nextSave, boardId |-> cur, epoch |-> epoch, stage |-> "sent",
     count |-> Cardinality(page), payload |-> BoardData(page, camera)]

StartSave(src) ==
    /\ nextSave <= MaxSaves
    /\ saves' = saves \cup {SaveRequest(src)}
    /\ nextSave' = nextSave + 1
    /\ saving' = TRUE

\* setInterval(saveBoard, 30000) fires.
IntervalSave ==
    /\ listening
    /\ StartSave("interval")
    /\ UNCHANGED <<rows, view, boardName, page, camera, mounted, epoch, room, listening,
                   debounce, lastSaved, load, loadLog, appliedLog>>
    /\ UNCHANGED boardRest

\* saveTimeout fires, 2 s after the last change.
DebounceSave ==
    /\ listening
    /\ debounce
    /\ debounce' = FALSE
    /\ StartSave("debounce")
    /\ UNCHANGED <<rows, view, boardName, page, camera, mounted, epoch, room, listening,
                   lastSaved, load, loadLog, appliedLog>>
    /\ UNCHANGED boardRest

\* The Save button: disabled={saving}; manualSave returns when editor is null.
ManualSave ==
    /\ mounted
    /\ ~saving
    /\ StartSave("manual")
    /\ UNCHANGED <<rows, view, boardName, page, camera, mounted, epoch, room, listening,
                   debounce, lastSaved, load, loadLog, appliedLog>>
    /\ UNCHANGED boardRest

\* An update guarded by a sequence token: a write older than one already
\* applied is dropped.
ApplyUpdateIfNewer(row, s) ==
    IF row.exists /\ row.user_id = Me /\ s.id > appliedLog.highest
    THEN [row EXCEPT !.board_data = s.payload] ELSE row

\* .update({board_data: boardData, ...}).eq('id', boardId) at the backend,
\* under the policy "Users can update own boards": the column is replaced,
\* whatever it held.
ApplyUpdate(row, s) ==
    IF row.exists /\ row.user_id = Me THEN [row EXCEPT !.board_data = s.payload] ELSE row

BackendApplySave ==
    /\ \E s \in saves :
         /\ s.stage = "sent"
         /\ rows' = [rows EXCEPT ![s.boardId] = ApplyUpdate(rows[s.boardId], s)]
         /\ saves' = (saves \ {s}) \cup {[s EXCEPT !.stage = "ok"]}
         /\ appliedLog' = [last |-> s.id, payload |-> s.payload, boardId |-> s.boardId,
                           epoch |-> s.epoch, count |-> s.count,
                           highest |-> IF s.id > appliedLog.highest THEN s.id
                                       ELSE appliedLog.highest]
    /\ UNCHANGED <<view, boardName, page, camera, mounted, epoch, room, listening, debounce,
                   saving, lastSaved, nextSave, load, loadLog>>
    /\ UNCHANGED boardRest

\* setLastSaved placed before the test of error.
SettledLastSavedAlways(ok, id, prev) == id

\* if (error) throw error; setLastSaved(new Date())
SettledLastSaved(ok, id, prev) == IF ok THEN id ELSE prev

\* The code after the await when the write went through: setLastSaved,
\* finally setSaving(false). A save of a view that has been unmounted since
\* sets state on nothing.
SettleSave ==
    /\ \E s \in saves :
         /\ s.stage = "ok"
         /\ saves' = saves \ {s}
         /\ IF mounted /\ s.epoch = epoch
            THEN /\ lastSaved' = SettledLastSaved(TRUE, s.id, lastSaved)
                 /\ saving' = FALSE
            ELSE UNCHANGED <<lastSaved, saving>>
    /\ UNCHANGED <<rows, view, boardName, page, camera, mounted, epoch, room, listening,
                   debounce, nextSave, load, loadLog, appliedLog>>
    /\ UNCHANGED boardRest

\* The write fails (network, authorization): the row is not touched, the
\* client is given an error, catch logs it, finally setSaving(false).
FailSave ==
    /\ \E s \in saves :
         /\ s.stage = "sent"
         /\ saves' = saves \ {s}
         /\ IF mounted /\ s.epoch = epoch
            THEN /\ lastSaved' = SettledLastSaved(FALSE, s.id, lastSaved)
                 /\ saving' = FALSE
            ELSE UNCHANGED <<lastSaved, saving>>
    /\ UNCHANGED <<rows, view, boardName, page, camera, mounted, epoch, room, listening,
                   debounce, nextSave, load, loadLog, appliedLog>>
    /\ UNCHANGED boardRest

\* A cleanup that leaves the pending saveTimeout alone.
TimeoutLeftPending(pending) == pending

\* clearTimeout(saveTimeout) in the effect's cleanup: no timer is pending
\* afterwards.
ClearTimeout(pending) == FALSE

\* onBack: the view unmounts; the effect's cleanup clears the interval and
\* the timeout and unsubscribes. Requests in flight stay in flight.
Unmount ==
    /\ mounted
    /\ view' = [currentView |-> "dashboard", currentBoardId |-> 0]
    /\ mounted' = FALSE
    /\ listening' = FALSE
    /\ debounce' = ClearTimeout(debounce)
    /\ saving' = FALSE
    /\ lastSaved' = 0
    /\ boardName' = NoName
    /\ load' = [pc |-> "idle", resp |-> NoResp]
    /\ UNCHANGED <<rows, page, camera, epoch, room, saves, nextSave, loadLog, appliedLog>>
    /\ UNCHANGED boardRest

\* Dashboard: a click on a board of the list opens it.
OpenBoard(b) ==
    /\ view.currentView = "dashboard"
    /\ view' = [currentView |-> "board", currentBoardId |-> b]
    /\ UNCHANGED <<rows, boardName, page, camera, mounted, epoch, room, listening, debounce,
                   saving, lastSaved, saves, nextSave, load, loadLog, appliedLog>>
    /\ UNCHANGED boardRest

\* ----------------------------------------------------------- chat panel
\* A model reply is a sequence of pieces: plain text, the fence that opens a
\* json code block, a bare fence, and three JSON documents.
Tokens == {"t", "<fence>json", "<fence>", "{update_board}", "{create_shapes}", "{other}"}
Replies == UNION {[1..n -> Tokens] : n \in 0..MaxReplyLen}

Sorry == <<"Sorry, I encountered an error.">>
RequestFailed == <<"Error: ", "API request failed">>
KeyMissing == <<"Error: ", "OpenAI API key not configured">>
NoJsonFound == <<"Error creating visualization: ",
                 "No valid visualization JSON found in response">>
JsonSyntaxError == <<"Error creating visualization: ", "SyntaxError">>

UserMessage(text) == [id |-> "now", role |-> "user", content |-> text]
AssistantMessage(text) == [id |-> "now", role |-> "assistant", content |-> text]

\* The row saveChatMessage inserts for a message; created_at is the
\* column's default, the backend's clock when the insert runs, and the
\* clock has moved on since the insert before.
ChatRow(table, m) ==
    [board_id |-> cur, user_id |-> user, message_type |-> m.role,
     content |-> m.content, created_at |-> Len(table) + 1]

\* saveChatMessage: if (!user || !boardId || message.id === 'welcome') return;
\* otherwise one insert into board_chats.
SaveChatMessage(table, m) ==
    IF user = NoUser \/ cur = 0 \/ m.id = "welcome" THEN table
    ELSE Append(table, ChatRow(table, m))

\* data.choices[0]?.message?.content || 'Sorry, I encountered an error.'
ReplyText(content) == IF content = <<>> THEN Sorry ELSE content

\* The match of the code-block pattern (three backticks, "json", the
\* shortest text, three backticks): the first opening fence and the first
\* three backticks after it, which a further opening fence also holds.
OpeningFences(text) == {i \in 1..Len(text) : text[i] = "<fence>json"}
FirstOf(S) == CHOOSE i \in S : \A j \in S : i <= j
ClosingFences(text, i) ==
    {j \in (i + 1)..Len(text) : text[j] \in {"<fence>json", "<fence>"}}
JsonMatch(text) ==
    /\ OpeningFences(text) # {}
    /\ ClosingFences(text, FirstOf(OpeningFences(text))) # {}
\* jsonMatch[1]
JsonString(text) ==
    LET i == FirstOf(OpeningFences(text))
        j == FirstOf(ClosingFences(text, i))
    IN SubSeq(text, i + 1, j - 1)

\* JSON.parse returns for one JSON document and throws for anything else,
\* the empty string included.
JsonParses(str) ==
    Len(str) = 1 /\ str[1] \in {"{update_board}", "{create_shapes}", "{other}"}

\* boardData.action of the parsed payload; "none" when there is no payload.
ReplyAction(text) ==
    IF JsonMatch(text) /\ JsonParses(JsonString(text)) THEN JsonString(text)[1]
    ELSE "none"

\* A number a payload gives for a field of a described shape, or leaves out.
OptNums == {Absent} \cup {Some(n) : n \in 0..MaxCoord}

NoSize == [width |-> Absent, height |-> Absent, length |-> Absent]

\* The entries of a payload's shapes array: a text with or without a
\* position, a box with or without a size, an arrow with or without a length.
DescribedShapes ==
    {[type |-> "text", x |-> x, y |-> y, size |-> NoSize] : x \in OptNums, y \in OptNums}
    \cup {[type |-> "geo", x |-> Absent, y |-> Absent,
           size |-> [NoSize EXCEPT !.width = w, !.height = h]] :
            w \in OptNums, h \in OptNums}
    \cup {[type |-> "arrow", x |-> Absent, y |-> Absent,
           size |-> [NoSize EXCEPT !.length = l]] : l \in OptNums}

\* What the parsed document holds under board.shapes (update_board) or
\* shapes (create_shapes): nothing, or an array of described shapes.
PayloadShapes ==
    {Absent} \cup
    {Some(list) : list \in UNION {[1..n -> DescribedShapes] : n \in 0..MaxPayloadShapes}}

\* The branch sendMessage takes for a reply:
\* boardData.action === 'update_board' && boardData.board?.shapes, else
\* boardData.action === 'create_shapes' && boardData.shapes, else neither.
Dispatch(text, doc) ==
    IF ReplyAction(text) \in {"{update_board}", "{create_shapes}"} /\ IsPresent(doc)
    THEN ReplyAction(text) ELSE "none"

\* What the left side of value || fallback is tested for: a missing field
\* is falsy, and so is the number 0.
Truthy(o) == IsPresent(o) /\ Get(o) # 0

\* value || fallback
OrDefault(o, d) == IF Truthy(o) THEN Get(o) ELSE d

\* A coordinate is a page coordinate or an offset from the centre of the
\* viewport, which createBoardShape reads from the engine.
OnPage(n) == [from |-> "page", d |-> n]
FromCentre(n) == [from |-> "centre", d |-> n]

\* updateEntireBoard: shapeData.x || (100 + (index * 20)), the same for y.
UpdateDefaultXY(index) == OnPage(100 + index * 20)

\* createBoardShape: shapeData.x || (centerX + offsetX - 250) with
\* offsetX = (index % 3) * 250, and shapeData.y || (centerY + offsetY - 75)
\* with offsetY = Math.floor(index / 3) * 150.
CreateDefaultX(index) == FromCentre((index % 3) * 250 - 250)
CreateDefaultY(index) == FromCentre((index \div 3) * 150 - 75)

\* shapeData.x || <default position>
Coord(o, d) == IF Truthy(o) THEN OnPage(Get(o)) ELSE d

\* w: shapeData.width || 200, h: shapeData.height || 100,
\* end: {x: shapeData.length || 100, y: 0}
DefaultWidth == 200
DefaultHeight == 100
DefaultLength == 100

\* The argument of the editor.createShape call made for the entry at index
\* (from 0) of the array, by updateEntireBoard or by createBoardShape.
ShapeCall(action, e, index) ==
    [type |-> e.type,
     x |-> Coord(e.x, IF action = "{update_board}" THEN UpdateDefaultXY(index)
                      ELSE CreateDefaultX(index)),
     y |-> Coord(e.y, IF action = "{update_board}" THEN UpdateDefaultXY(index)
                      ELSE CreateDefaultY(index)),
     w |-> IF e.type = "geo" THEN Some(OrDefault(e.size.width, DefaultWidth)) ELSE Absent,
     h |-> IF e.type = "geo" THEN Some(OrDefault(e.size.height, DefaultHeight)) ELSE Absent,
     length |-> IF e.type = "arrow" THEN Some(OrDefault(e.size.length, DefaultLength))
                ELSE Absent]

\* The createShape calls of one payload, in the order of the array.
ShapeCalls(action, doc) ==
    IF action = "none" THEN <<>>
    ELSE [i \in 1..Len(Get(doc)) |-> ShapeCall(action, Get(doc)[i], i - 1)]

\* A display that reports a reply without a payload as an error.
ChatDisplayParseError(text, doc, engineOk) ==
    IF ReplyAction(text) = "none" THEN NoJsonFound ELSE text

\* sendMessage: displayContent. updateEntireBoard rethrows an engine error,
\* createBoardShape logs it and returns.
ChatDisplay(text, doc, engineOk) ==
    IF Dispatch(text, doc) = "{update_board}"
    THEN IF engineOk THEN <<"Updated the entire board!">>
         ELSE <<"Failed to update board">>
    ELSE IF Dispatch(text, doc) = "{create_shapes}"
    THEN <<"Created content on the board!">>
    ELSE text

\* A test that leaves out every reply whose payload was carried out.
AddsMessageUnlessPayload(isJsonResponse, display, text) == ~isJsonResponse

\* if (!isJsonResponse || displayContent !== aiResponse): whether sendMessage
\* appends the assistant message and saves it.
AddsMessage(isJsonResponse, display, text) == ~isJsonResponse \/ display # text

\* An update_board that creates the new shapes and leaves the old ones.
ChatPageKeepsOld(text, doc, engineOk, pg) ==
    IF ~engineOk \/ Dispatch(text, doc) = "none" THEN pg
    ELSE CreateN(Len(Get(doc)), pg)

\* The page after the payload of a chat reply has been carried out: for
\* update_board every shape of the page is deleted and one shape is created
\* per entry, for create_shapes one shape is created per entry. Created
\* shapes get ids the page has not held; a batch that throws is rolled back.
ChatPage(text, doc, engineOk, pg) ==
    IF ~engineOk \/ Dispatch(text, doc) = "none" THEN pg
    ELSE IF Dispatch(text, doc) = "{update_board}"
    THEN CreateN(Len(Get(doc)), pg) \ pg
    ELSE CreateN(Len(Get(doc)), pg)

\* A display that shows the raw reply.
ScriptDisplayRaw(text, doc) == Some(text)

\* processScript: the message appended for a reply, if any.
ScriptDisplay(text, doc) ==
    IF ~JsonMatch(text) THEN Some(NoJsonFound)
    ELSE IF ~JsonParses(JsonString(text)) THEN Some(JsonSyntaxError)
    ELSE IF ReplyAction(text) = "{create_shapes}" /\ IsPresent(doc)
    THEN Some(<<"Board visualization created!">>)
    ELSE Absent

\* boardData.action === 'create_shapes' && boardData.shapes
ScriptDispatch(text, doc) ==
    IF ReplyAction(text) = "{create_shapes}" /\ IsPresent(doc)
    THEN "{create_shapes}" ELSE "none"

ScriptPage(text, doc, engineOk, pg) ==
    IF engineOk /\ ScriptDispatch(text, doc) = "{create_shapes}"
    THEN CreateN(Len(Get(doc)), pg) ELSE pg

AppendIfPresent(list, o) ==
    IF IsPresent(o) THEN Append(list, AssistantMessage(Get(o))) ELSE list

\* A guard that looks at the text alone.
SubmitAcceptedWhileLoading(text, loading) == Trim(text) # <<>>

\* if (!inputMessage.trim() || isLoading) return, and the same test of
\* scriptContent in processScript: whether the handler goes on.
SubmitAccepted(text, loading) == Trim(text) # <<>> /\ ~loading

\* sendMessage up to its first await: the guard, the user's message is
\* appended, setIsLoading(true), saveChatMessage(userMessage) is issued.
\* The submissions that find the panel idle are counted and capped; one
\* made while isLoading can always be made.
SendMessage(input) ==
    /\ mounted
    /\ sends < MaxSends \/ isLoading
    /\ IF SubmitAccepted(input, isLoading)
       THEN /\ messages' = Append(messages, UserMessage(input))
            /\ isLoading' = TRUE
            /\ chat' = [NoChat EXCEPT !.pc = "saveUser", !.msg = UserMessage(input)]
            /\ sends' = sends + 1
       ELSE UNCHANGED <<messages, isLoading, chat, sends>>
    /\ UNCHANGED <<chatRows, apiKey, hist>>
    /\ UNCHANGED <<boardVars, chatRest>>

\* A saveChatMessage that lets the insert's error out: sendMessage awaits it
\* outside its try, so the handler ends there.
AfterUserInsertRethrown(ok, key) ==
    IF ~ok THEN "rejected" ELSE IF key THEN "fetch" ELSE "saveAssistant"

\* Where sendMessage is after await saveChatMessage(userMessage):
\* saveChatMessage catches the insert's error and logs it; then the key is
\* tested, and without one the throw takes the outer catch, which appends
\* an error message and saves it.
AfterUserInsert(ok, key) == IF key THEN "fetch" ELSE "saveAssistant"

\* saveChatMessage settles, with a row or with an error it logs; the request
\* to the model is issued next.
UserInsertSettles ==
    /\ chat.pc = "saveUser"
    /\ \E ok \in BOOLEAN :
         /\ chatRows' = IF ok THEN SaveChatMessage(chatRows, chat.msg) ELSE chatRows
         /\ chat' = [chat EXCEPT !.pc = AfterUserInsert(ok, apiKey), !.saved = ok,
                                 !.ok = apiKey,
                                 !.msg = IF AfterUserInsert(ok, apiKey) = "saveAssistant"
                                         THEN AssistantMessage(KeyMissing)
                                         ELSE NoMessage]
         /\ messages' = IF AfterUserInsert(ok, apiKey) = "saveAssistant"
                        THEN Append(messages, AssistantMessage(KeyMissing))
                        ELSE messages
    /\ UNCHANGED <<isLoading, sends, apiKey, hist>>
    /\ UNCHANGED <<boardVars, chatRest>>

\* The model's answer arrives in chat mode and sendMessage runs on to its
\* next await: the payload is looked for and carried out, the assistant
\* message is appended and its insert issued. A failed request takes the
\* outer catch.
ChatReplyArrives ==
    /\ chat.pc = "fetch"
    /\ chat.mode = "chat"
    /\ \/ /\ messages' = Append(messages, AssistantMessage(RequestFailed))
          /\ chat' = [chat EXCEPT !.pc = "saveAssistant", !.ok = FALSE,
                                  !.msg = AssistantMessage(RequestFailed)]
          /\ UNCHANGED <<page, debounce, isLoading>>
       \/ \E content \in Replies, doc \in PayloadShapes, engineOk \in BOOLEAN :
            LET text == ReplyText(content)
                display == ChatDisplay(text, doc, engineOk)
                adds == AddsMessage(Dispatch(text, doc) # "none", display, text)
            IN
              /\ ReplyAction(text) \notin {"{update_board}", "{create_shapes}"}
                    => doc = Absent
              /\ Dispatch(text, doc) = "none" => engineOk
              /\ messages' =
                     IF adds THEN Append(messages, AssistantMessage(display))
                     ELSE messages
              /\ page' = ChatPage(text, doc, engineOk, page)
              /\ debounce' = HandleChange(page', camera)
              /\ chat' = [chat EXCEPT !.pc = IF adds THEN "saveAssistant" ELSE "idle",
                                      !.reply = content,
                                      !.ok = TRUE, !.doc = doc, !.engine = engineOk,
                                      !.calls = ShapeCalls(Dispatch(text, doc), doc),
                                      !.msg = IF adds THEN AssistantMessage(display)
                                              ELSE NoMessage]
              /\ isLoading' = IF adds THEN isLoading ELSE FALSE
    /\ UNCHANGED <<chatRows, sends, apiKey, hist>>
    /\ UNCHANGED <<rows, view, boardName, camera, mounted, epoch, room, listening,
                   saving, lastSaved, saves, nextSave, load, loadLog, appliedLog>>
    /\ UNCHANGED chatRest

\* The assistant message's insert settles; finally setIsLoading(false).
AssistantInsertSettles ==
    /\ chat.pc = "saveAssistant"
    /\ \E ok \in BOOLEAN :
         chatRows' = IF ok THEN SaveChatMessage(chatRows, chat.msg) ELSE chatRows
    /\ isLoading' = FALSE
    /\ chat' = [chat EXCEPT !.pc = "idle", !.msg = NoMessage]
    /\ UNCHANGED <<messages, sends, apiKey, hist>>
    /\ UNCHANGED <<boardVars, chatRest>>

\* processScript up to its await: the guard, setIsLoading(true), the key is
\* tested and the request to the model is issued. Without a key the throw
\* takes the catch, which appends an error message, and finally
\* setIsLoading(false).
ProcessScript(script) ==
    /\ mounted
    /\ sends < MaxSends \/ isLoading
    /\ IF SubmitAccepted(script, isLoading)
       THEN /\ isLoading' = apiKey
            /\ chat' = [NoChat EXCEPT !.pc = IF apiKey THEN "fetch" ELSE "idle",
                                      !.mode = "script", !.ok = apiKey]
            /\ messages' = IF apiKey THEN messages
                           ELSE Append(messages, AssistantMessage(KeyMissing))
            /\ sends' = sends + 1
       ELSE UNCHANGED <<messages, isLoading, chat, sends>>
    /\ UNCHANGED <<chatRows, apiKey, hist>>
    /\ UNCHANGED <<boardVars, chatRest>>

\* The model's answer arrives in script mode and processScript runs to its
\* end: the payload is looked for and carried out, a message is appended,
\* finally setIsLoading(false). Nothing is inserted into board_chats.
ScriptReplyArrives ==
    /\ chat.pc = "fetch"
    /\ chat.mode = "script"
    /\ \/ /\ messages' = Append(messages, AssistantMessage(RequestFailed))
          /\ chat' = [chat EXCEPT !.pc = "idle", !.ok = FALSE]
          /\ UNCHANGED <<page, debounce>>
       \/ \E content \in Replies, doc \in PayloadShapes, engineOk \in BOOLEAN :
            LET text == ReplyText(content) IN
              /\ ReplyAction(text) \notin {"{update_board}", "{create_shapes}"}
                    => doc = Absent
              /\ ScriptDispatch(text, doc) = "none" => engineOk
              /\ messages' = AppendIfPresent(messages, ScriptDisplay(text, doc))
              /\ page' = ScriptPage(text, doc, engineOk, page)
              /\ debounce' = HandleChange(page', camera)
              /\ chat' = [chat EXCEPT !.pc = "idle", !.reply = content, !.ok = TRUE,
                                      !.doc = doc, !.engine = engineOk,
                                      !.calls = ShapeCalls(ScriptDispatch(text, doc), doc)]
    /\ isLoading' = FALSE
    /\ UNCHANGED <<chatRows, sends, apiKey, hist>>
    /\ UNCHANGED <<rows, view, boardName, camera, mounted, epoch, room, listening,
                   saving, lastSaved, saves, nextSave, load, loadLog, appliedLog>>
    /\ UNCHANGED chatRest

\* ------------------------------------------------ chat panel: history
NoHistory == [pc |-> "idle", error |-> FALSE, data |-> <<>>]

\* .eq('board_id', boardId).eq('user_id', user?.id), under the policy
\* "Users can view their own board chats": auth.uid() = user_id.
Matching(table, board, uid) ==
    {table[i] : i \in {j \in DOMAIN table :
                          table[j].board_id = board /\ table[j].user_id = uid}}

\* An order by created_at with ascending: false.
RECURSIVE OrderDescending(_)
OrderDescending(set) ==
    IF set = {} THEN <<>>
    ELSE LET m == CHOOSE r \in set : \A q \in set : q.created_at <= r.created_at
         IN <<m>> \o OrderDescending(set \ {m})

\* .order('created_at', { ascending: true })
RECURSIVE OrderAscending(_)
OrderAscending(set) ==
    IF set = {} THEN <<>>
    ELSE LET m == CHOOSE r \in set : \A q \in set : r.created_at <= q.created_at
         IN <<m>> \o OrderAscending(set \ {m})

\* The select of loadChatHistory as the backend answers it.
SelectChats(table, board, uid) == OrderAscending(Matching(table, board, uid))

\* data.map(chat => ({id: chat.id, role: chat.message_type, content: chat.content}))
LoadedMessages(data) ==
    [i \in 1..Len(data) |->
        [id |-> "row", role |-> data[i].message_type, content |-> data[i].content]]

\* The effect on [boardId, user], at mount and whenever one of the two
\* changes: if (boardId && user) loadChatHistory() issues its select.
LoadChatHistory ==
    /\ mounted
    /\ cur # 0
    /\ user # NoUser
    /\ hist.pc \in {"idle", "shown"}
    /\ hist' = [NoHistory EXCEPT !.pc = "sent"]
    /\ UNCHANGED <<messages, isLoading, chat, chatRows, sends, apiKey>>
    /\ UNCHANGED <<boardVars, chatRest>>

\* The backend answers the select: the rows as they are now, or an error.
ServeHistory ==
    /\ hist.pc = "sent"
    /\ \E ok \in BOOLEAN :
         hist' = [pc |-> "resp", error |-> ~ok,
                  data |-> IF ok THEN SelectChats(chatRows, cur, user) ELSE <<>>]
    /\ UNCHANGED <<messages, isLoading, chat, chatRows, sends, apiKey>>
    /\ UNCHANGED <<boardVars, chatRest>>

\* loadChatHistory after the await: the loaded messages are shown, or the
\* welcome message when there are none or the select failed.
SettleHistory ==
    /\ hist.pc = "resp"
    /\ messages' = IF hist.error \/ hist.data = <<>> THEN <<Welcome>>
                   ELSE LoadedMessages(hist.data)
    /\ hist' = [hist EXCEPT !.pc = "shown"]
    /\ UNCHANGED <<isLoading, chat, chatRows, sends, apiKey>>
    /\ UNCHANGED <<boardVars, chatRest>>

\* Another session inserts a row of its own: another user on this board, or
\* this user on another board. The policy "Users can create their own board
\* chats" lets it through: auth.uid() = user_id.
OtherSessionInserts ==
    /\ Len(chatRows) < MaxChatRows
    /\ \E who \in {[board_id |-> cur, user_id |-> "u2"],
                    [board_id |-> 2, user_id |-> Me]} :
         chatRows' = Append(chatRows,
                            [board_id |-> who.board_id, user_id |-> who.user_id,
                             message_type |-> "user", content |-> <<"a">>,
                             created_at |-> Len(chatRows) + 1])
    /\ UNCHANGED <<messages, isLoading, chat, sends, apiKey, hist>>
    /\ UNCHANGED <<boardVars, chatRest>>

\* ------------------------------------------------- chat panel: images
ImageIds == 1..MaxImages
NoRemoval == [pc |-> "idle", failed |-> FALSE]

\* prev.filter((_, i) => i !== index), with index counted from 1 here
RECURSIVE DropIndex(_, _)
DropIndex(list, k) ==
    IF list = <<>> THEN <<>>
    ELSE IF k = 1 THEN Tail(list)
    ELSE <<Head(list)>> \o DropIndex(Tail(list), k - 1)

\* filePath = "board-images/" + boardId + "/" + <timestamp>-<random>.<ext>,
\* as its segments; image i stands for the file name made for it.
FilePath(i) == <<"board-images", cur, i>>

\* storage.foldername(name): the segments of the path before the file name.
FolderName(name) == SubSeq(name, 1, Len(name) - 1)

\* auth.role() of a request: that of a signed-in session, or anon.
AuthRole(uid) == IF uid = NoUser THEN "anon" ELSE "authenticated"

\* The policy "Allow authenticated users to upload board images" on
\* storage.objects, FOR INSERT WITH CHECK.
UploadPolicy(bucket_id, name, uid) ==
    /\ bucket_id = "board-images"
    /\ AuthRole(uid) = "authenticated"
    /\ FolderName(name)[1] = uid

\* handleFileUpload for one picked image, up to its first await: the upload
\* to the bucket is issued.
HandleFileUpload(i) ==
    /\ mounted
    /\ uploads[i] = "idle"
    /\ \A j \in ImageIds : j < i => uploads[j] # "idle"
    /\ uploads' = [uploads EXCEPT ![i] = "storing"]
    /\ UNCHANGED <<objects, imageRows, uploadedImageUrls, uploadedImages, removals>>
    /\ UNCHANGED imgRest

\* The upload settles. if (uploadError) throw uploadError: the catch logs
\* it; otherwise the public URL and the dimensions are taken and the insert
\* into board_images is issued.
UploadStores(i) ==
    /\ uploads[i] = "storing"
    /\ \E ok \in BOOLEAN :
         /\ objects' = IF ok THEN objects \cup {i} ELSE objects
         /\ uploads' = [uploads EXCEPT ![i] = IF ok THEN "inserting" ELSE "failed"]
    /\ UNCHANGED <<imageRows, uploadedImageUrls, uploadedImages, removals>>
    /\ UNCHANGED imgRest

\* The insert settles. if (dbError) throw dbError: the catch logs it and the
\* object stays; otherwise the record and the file are appended to the
\* panel's lists.
UploadInserts(i) ==
    /\ uploads[i] = "inserting"
    /\ \E ok \in BOOLEAN :
         /\ imageRows' = IF ok THEN imageRows \cup {i} ELSE imageRows
         /\ uploadedImageUrls' =
                IF ok THEN Append(uploadedImageUrls, i) ELSE uploadedImageUrls
         /\ uploadedImages' = IF ok THEN Append(uploadedImages, i) ELSE uploadedImages
         /\ uploads' = [uploads EXCEPT ![i] = IF ok THEN "done" ELSE "failed"]
    /\ UNCHANGED <<objects, removals>>
    /\ UNCHANGED imgRest

\* removeImage(index): imageToRemove = uploadedImageUrls[index], the storage
\* remove is issued, and both lists lose the entry at index.
RemoveImage(k) ==
    /\ k \in 1..Len(uploadedImageUrls)
    /\ removals[uploadedImageUrls[k]].pc = "idle"
    /\ removals' = [removals EXCEPT ![uploadedImageUrls[k]] =
                                       [pc |-> "storage", failed |-> FALSE]]
    /\ uploadedImages' = DropIndex(uploadedImages, k)
    /\ uploadedImageUrls' = DropIndex(uploadedImageUrls, k)
    /\ UNCHANGED <<objects, imageRows, uploads>>
    /\ UNCHANGED imgRest

\* A chain that leaves the row where it is.
AfterStorageRemoveSkipsRow(outcome) == IF outcome = "throws" THEN "caught" ELSE "done"

\* .remove([...]).then(() => supabase.from('board_images').delete()...): the
\* first then runs when the remove resolves, with data or with an error the
\* callback does not look at; a rejection goes to the catch.
AfterStorageRemove(outcome) == IF outcome = "throws" THEN "caught" ELSE "row"

\* The storage remove settles and the chain goes on.
StorageRemoveSettles(i) ==
    /\ removals[i].pc = "storage"
    /\ \E outcome \in {"ok", "error", "throws"} :
         /\ objects' = IF outcome = "ok" THEN objects \ {i} ELSE objects
         /\ removals' = [removals EXCEPT ![i] = [pc |-> AfterStorageRemove(outcome),
                                                 failed |-> outcome # "ok"]]
    /\ UNCHANGED <<imageRows, uploadedImageUrls, uploadedImages, uploads>>
    /\ UNCHANGED imgRest

\* delete from board_images where id = ... settles, under the policy "Users
\* can delete their own board images"; the second then logs the removal
\* whatever the result holds.
RowDeleteSettles(i) ==
    /\ removals[i].pc = "row"
    /\ \E ok \in BOOLEAN :
         /\ imageRows' = IF ok THEN imageRows \ {i} ELSE imageRows
         /\ removals' = [removals EXCEPT ![i] = [pc |-> "done",
                                                 failed |-> removals[i].failed \/ ~ok]]
    /\ UNCHANGED <<objects, uploadedImageUrls, uploadedImages, uploads>>
    /\ UNCHANGED imgRest

\* No image has been picked.
ImagesIdle ==
    /\ objects = {}
    /\ imageRows = {}
    /\ uploadedImageUrls = <<>>
    /\ uploadedImages = <<>>
    /\ uploads = [i \in ImageIds |-> "idle"]
    /\ removals = [i \in ImageIds |-> NoRemoval]

\* ----------------------------------------------------- template library
TemplateIds == 1..MaxTemplates
NoTemplateRow ==
    [exists |-> FALSE, user_id |-> Me, is_public |-> FALSE, name |-> NoName,
     template_data |-> EmptyBlob]
NoTemplateFetch == [pc |-> "idle", error |-> FALSE, data |-> <<>>]
\* name, isPublic and data are what the insert under way was issued with:
\* name.trim(), isPublic, templateData.
ModalClosed ==
    [open |-> FALSE, error |-> "", saving |-> FALSE, pc |-> "idle", name |-> NoName,
     isPublic |-> FALSE, data |-> EmptyBlob]

\* The tables the migration runs ALTER TABLE ... ENABLE ROW LEVEL SECURITY
\* on. A policy of a table that is not among them is not applied.
RlsTables == {"boards", "profiles", "board_chats", "chat_sessions", "board_images"}

\* CREATE POLICY "Users can view templates" ON public.templates
\*     FOR SELECT USING (is_public = true OR auth.uid() = user_id)
ViewTemplatesPolicy(row, uid) == row.is_public \/ row.user_id = uid

\* select * from templates as uid: without a filter in the query, the rows
\* the table's policies let through when row level security is enabled on
\* the table, every row when it is not.
RECURSIVE SelectTemplates(_, _)
SelectTemplates(t, uid) ==
    IF t = 0 THEN <<>>
    ELSE (IF /\ templateRows[t].exists
             /\ ("templates" \in RlsTables => ViewTemplatesPolicy(templateRows[t], uid))
          THEN <<t>> ELSE <<>>)
         \o SelectTemplates(t - 1, uid)

\* The effect on [isExpanded, activeTab]: the saved tab is shown and
\* loadTemplates issues its select.
LoadTemplates ==
    /\ mounted
    /\ tfetch.pc \in {"idle", "shown"}
    /\ tfetch' = [tfetch EXCEPT !.pc = "sent"]
    /\ UNCHANGED <<templateRows, templates, modal>>
    /\ UNCHANGED libRest

\* The backend answers the select: the rows this user is given, or an error.
ServeTemplates ==
    /\ tfetch.pc = "sent"
    /\ \E ok \in BOOLEAN :
         tfetch' = [pc |-> "resp", error |-> ~ok,
                    data |-> IF ok THEN SelectTemplates(MaxTemplates, Me) ELSE <<>>]
    /\ UNCHANGED <<templateRows, templates, modal>>
    /\ UNCHANGED libRest

\* loadTemplates after the await: if (error) throw error;
\* setTemplates(data || []); the catch logs.
SettleTemplates ==
    /\ tfetch.pc = "resp"
    /\ templates' = IF tfetch.error THEN templates ELSE tfetch.data
    /\ tfetch' = [tfetch EXCEPT !.pc = "shown"]
    /\ UNCHANGED <<templateRows, modal>>
    /\ UNCHANGED libRest

\* The toolbar's save-template button: the modal opens with empty fields.
OpenSaveTemplate ==
    /\ mounted
    /\ ~modal.open
    /\ modal' = [ModalClosed EXCEPT !.open = TRUE]
    /\ UNCHANGED <<templateRows, templates, tfetch>>
    /\ UNCHANGED libRest

\* templateData as SaveTemplateModal.handleSave builds it: the keys of
\* boardData that the loads read (viewport and createdAt are read nowhere).
TemplateData(pg, cam) == BoardData(pg, cam)

\* A handleSave that tests the name alone.
RefusalNameOnly(n, pg) ==
    IF Trim(n) = <<>> THEN "Template name is required" ELSE ""

\* The two tests handleSave makes before its first await, as the error each
\* sets: if (!editor || !name.trim()), if (shapes.length === 0).
Refusal(n, pg) ==
    IF Trim(n) = <<>> THEN "Template name is required"
    ELSE IF Cardinality(pg) = 0 THEN "Cannot save empty board as template"
    ELSE ""

\* handleSave up to its first await: a blank name or an empty page sets the
\* error and returns; otherwise templateData is built and getUser is awaited.
HandleSave(n, pub) ==
    /\ modal.open
    /\ modal.pc = "idle"
    /\ modal' =
         IF Refusal(n, page) = "Template name is required"
         THEN [modal EXCEPT !.error = Refusal(n, page)]
         ELSE IF Refusal(n, page) # ""
         THEN [modal EXCEPT !.error = Refusal(n, page),
                            !.saving = FALSE]
         ELSE [modal EXCEPT !.error = "", !.saving = TRUE, !.pc = "auth",
                            !.name = Trim(n), !.isPublic = pub,
                            !.data = TemplateData(page, camera)]
    /\ UNCHANGED <<templateRows, templates, tfetch>>
    /\ UNCHANGED libRest

\* getUser answers: without a user the error is set and handleSave returns;
\* with one the insert is issued.
SaveAuthAnswers ==
    /\ modal.pc = "auth"
    /\ \E hasUser \in BOOLEAN :
         modal' = IF hasUser THEN [modal EXCEPT !.pc = "insert"]
                  ELSE [ModalClosed EXCEPT
                           !.open = TRUE,
                           !.error = "You must be logged in to save templates"]
    /\ UNCHANGED <<templateRows, templates, tfetch>>
    /\ UNCHANGED libRest

HasFreeTemplate == \E t \in TemplateIds : templateRows[t] = NoTemplateRow
FreeTemplate ==
    CHOOSE t \in TemplateIds :
        templateRows[t] = NoTemplateRow
        /\ \A u \in TemplateIds : templateRows[u] = NoTemplateRow => t <= u

\* The insert settles: with a row, onSuccess() and onClose() close the
\* modal; with an error the message is set and the modal stays.
SaveInsertSettles ==
    /\ modal.pc = "insert"
    /\ \/ /\ HasFreeTemplate
          /\ templateRows' =
                [templateRows EXCEPT ![FreeTemplate] =
                    [exists |-> TRUE, user_id |-> Me, is_public |-> modal.isPublic,
                     name |-> modal.name, template_data |-> modal.data]]
          /\ modal' = ModalClosed
       \/ /\ modal' = [ModalClosed EXCEPT
                           !.open = TRUE,
                           !.error = "Failed to save template. Please try again."]
          /\ UNCHANGED templateRows
    /\ UNCHANGED <<templates, tfetch>>
    /\ UNCHANGED libRest

\* The library is not used while the other components are looked at.
LibraryIdle ==
    /\ templateRows = [t \in TemplateIds |-> NoTemplateRow]
    /\ templates = <<>>
    /\ tfetch = NoTemplateFetch
    /\ modal = ModalClosed

\* ------------------------------------------------------------ dashboard
Range(seq) == {seq[i] : i \in 1..Len(seq)}

\* boards.filter(board => board.id !== boardId)
RECURSIVE Without(_, _)
Without(list, b) ==
    IF list = <<>> THEN <<>>
    ELSE IF Head(list) = b THEN Without(Tail(list), b)
    ELSE <<Head(list)>> \o Without(Tail(list), b)

\* A select that is given every row of the table.
RECURSIVE AllBoards(_)
AllBoards(b) ==
    IF b = 0 THEN <<>>
    ELSE (IF rows[b].exists THEN <<b>> ELSE <<>>) \o AllBoards(b - 1)

\* select * from boards where user_id = <me> order by updated_at desc, under
\* the policy "Users can view own boards"; the order is not modelled beyond
\* being one order of the rows.
RECURSIVE OwnBoards(_)
OwnBoards(b) ==
    IF b = 0 THEN <<>>
    ELSE (IF rows[b].exists /\ rows[b].user_id = Me THEN <<b>> ELSE <<>>)
         \o OwnBoards(b - 1)

NoFetch == [pc |-> "idle", error |-> FALSE, data |-> <<>>, after |-> {}]
NoDelete == [pc |-> "idle", closure |-> <<>>, live |-> FALSE]
NoCreate == [pc |-> "idle", name |-> NoName, closure |-> <<>>]
NoneCreated == [id |-> 0, name |-> NoName, epoch |-> 0]

\* The Dashboard renders: boards is [], loading is true, and the effect on
\* [user] calls fetchBoards.
DashboardMount ==
    /\ Screen = "dashboard"
    /\ ~dashUp
    /\ dashUp' = TRUE
    /\ boards' = <<>>
    /\ fetch' = [pc |-> "sent", error |-> FALSE, data |-> <<>>, after |-> deletedOk]
    /\ UNCHANGED <<dels, create, created, deletedOk>>
    /\ UNCHANGED <<boardVars, dashRest>>

\* The backend answers fetchBoards: the caller's rows, or an error.
ServeFetch ==
    /\ fetch.pc = "sent"
    /\ \E ok \in BOOLEAN :
         fetch' = [fetch EXCEPT !.pc = "resp", !.error = ~ok,
                                !.data = IF ok THEN OwnBoards(MaxBoards) ELSE <<>>]
    /\ UNCHANGED <<boards, dashUp, dels, create, created, deletedOk>>
    /\ UNCHANGED <<boardVars, dashRest>>

\* fetchBoards after the await: if (error) throw; setBoards(data || []);
\* finally setLoading(false). The list is on screen from here on.
SettleFetch ==
    /\ fetch.pc = "resp"
    /\ boards' = IF fetch.error THEN boards ELSE fetch.data
    /\ fetch' = [fetch EXCEPT !.pc = "shown"]
    /\ UNCHANGED <<dashUp, dels, create, created, deletedOk>>
    /\ UNCHANGED <<boardVars, dashRest>>

\* The list is rendered and no modal covers it.
ListOnScreen == dashUp /\ fetch.pc = "shown" /\ create.pc = "idle"

\* deleteBoard(b) up to the await: confirm(); declined, the handler returns;
\* confirmed, the delete is issued. The handler closes over the boards of
\* the render it was made in.
ClickDelete(b) ==
    /\ ListOnScreen
    /\ b \in Range(boards)
    /\ dels[b].pc = "idle"
    /\ \E confirmed \in BOOLEAN :
         dels' = IF confirmed
                 THEN [dels EXCEPT ![b] = [pc |-> "sent", closure |-> boards, live |-> TRUE]]
                 ELSE dels
    /\ UNCHANGED <<boards, dashUp, fetch, create, created, deletedOk>>
    /\ UNCHANGED <<boardVars, dashRest>>

\* delete from boards where id = b at the backend, under the policy "Users
\* can delete own boards": a row of another user is left alone, which is no
\* error. A deleted row's id is never given out again.
DeleteRow(row) == IF row.user_id = Me THEN [row EXCEPT !.exists = FALSE] ELSE row

BackendDelete(b) ==
    /\ dels[b].pc = "sent"
    /\ rows' = [rows EXCEPT ![b] = DeleteRow(rows[b])]
    /\ dels' = [dels EXCEPT ![b].pc = "ok"]
    /\ UNCHANGED <<boards, dashUp, fetch, create, created, deletedOk>>
    /\ UNCHANGED <<view, boardName, page, camera, mounted, epoch, room, listening, debounce,
                   saving, lastSaved, saves, nextSave, load, loadLog, appliedLog>>
    /\ UNCHANGED dashRest

\* deleteBoard after the await, no error: setBoards(boards.filter(...)) with
\* the boards the handler closed over. On a Dashboard that has been
\* unmounted since, setBoards sets nothing.
SettleDelete(b) ==
    /\ dels[b].pc = "ok"
    /\ boards' = IF dels[b].live THEN Without(dels[b].closure, b) ELSE boards
    /\ dels' = [dels EXCEPT ![b] = NoDelete]
    /\ deletedOk' = deletedOk \cup {b}
    /\ UNCHANGED <<dashUp, fetch, create, created>>
    /\ UNCHANGED <<boardVars, dashRest>>

\* The delete fails: if (error) throw error; catch logs.
FailDelete(b) ==
    /\ dels[b].pc = "sent"
    /\ dels' = [dels EXCEPT ![b] = NoDelete]
    /\ UNCHANGED <<boards, dashUp, fetch, create, created, deletedOk>>
    /\ UNCHANGED <<boardVars, dashRest>>

\* The id the backend gives the next inserted row (gen_random_uuid()): one
\* no row has had.
HasFreshBoard == \E b \in BoardIds : rows[b] = NoRow
FreshBoard == CHOOSE b \in BoardIds : rows[b] = NoRow /\ \A c \in BoardIds : rows[c] = NoRow => b <= c

\* createBoard up to the await: if (!newBoardName.trim() || !user) return;
\* setCreating(true); the insert is issued.
CreateBoard(n) ==
    /\ ListOnScreen
    /\ Trim(n) # <<>>
    /\ create' = [pc |-> "sent", name |-> n, closure |-> boards]
    /\ UNCHANGED <<boards, dashUp, fetch, dels, created, deletedOk>>
    /\ UNCHANGED <<boardVars, dashRest>>

\* insert({name: newBoardName.trim(), ..., user_id: user.id, board_data: {}})
InsertedRow(n) ==
    [exists |-> TRUE, user_id |-> Me, name |-> Trim(n), board_data |-> EmptyBlob]

\* The insert goes through and createBoard runs on: setBoards([data,
\* ...boards]), the modal closes, onOpenBoard(data.id) switches to the board
\* view, which unmounts the Dashboard.
CreateSucceeds ==
    /\ create.pc = "sent"
    /\ HasFreshBoard
    /\ epoch < MaxMounts
    /\ rows' = [rows EXCEPT ![FreshBoard] = InsertedRow(create.name)]
    /\ boards' = <<FreshBoard>> \o create.closure
    /\ created' = [id |-> FreshBoard, name |-> create.name, epoch |-> epoch + 1]
    /\ create' = NoCreate
    /\ view' = [currentView |-> "board", currentBoardId |-> FreshBoard]
    /\ dashUp' = FALSE
    /\ fetch' = NoFetch
    /\ dels' = [b \in BoardIds |-> [dels[b] EXCEPT !.live = FALSE, !.closure = <<>>]]
    /\ UNCHANGED deletedOk
    /\ UNCHANGED <<boardName, page, camera, mounted, epoch, room, listening, debounce,
                   saving, lastSaved, saves, nextSave, load, loadLog, appliedLog>>
    /\ UNCHANGED dashRest

\* The insert fails: catch logs, finally setCreating(false).
CreateFails ==
    /\ create.pc = "sent"
    /\ create' = NoCreate
    /\ UNCHANGED <<boards, dashUp, fetch, dels, created, deletedOk>>
    /\ UNCHANGED <<boardVars, dashRest>>

\* A click on a board of the list: onOpenBoard(board.id), which unmounts
\* the Dashboard.
ClickBoard(b) ==
    /\ ListOnScreen
    /\ b \in Range(boards)
    /\ epoch < MaxMounts
    /\ view' = [currentView |-> "board", currentBoardId |-> b]
    /\ dashUp' = FALSE
    /\ fetch' = NoFetch
    /\ dels' = [c \in BoardIds |-> [dels[c] EXCEPT !.live = FALSE, !.closure = <<>>]]
    /\ UNCHANGED <<boards, create, created, deletedOk>>
    /\ UNCHANGED <<rows, boardName, page, camera, mounted, epoch, room, listening, debounce,
                   saving, lastSaved, saves, nextSave, load, loadLog, appliedLog>>
    /\ UNCHANGED dashRest

\* The chat panel with no history and nothing under way.
PanelIdle ==
    /\ messages = <<Welcome>>
    /\ isLoading = FALSE
    /\ chat = NoChat
    /\ chatRows = <<>>
    /\ sends = 0
    /\ hist = HistoryShown

\* The panel is not used while the other components are looked at.
ChatIdle == PanelIdle /\ apiKey = TRUE

\* No Dashboard is on screen while the board view alone is looked at.
DashIdle ==
    /\ boards = <<>>
    /\ dashUp = FALSE
    /\ fetch = NoFetch
    /\ dels = [b \in BoardIds |-> NoDelete]
    /\ create = NoCreate
    /\ created = NoneCreated
    /\ deletedOk = {}

\* ------------------------------------------------- the board view alone
\* What a boards row can hold when the view opens it: nothing yet, a blob of
\* the v2.0 format, blobs of the older per-shape format (one holding a record
\* the engine rejects), a snapshot tagged with another version, a snapshot
\* this build's engine does not accept, and a blob with neither.
StoredBlobs ==
    LET snap == Some(GetSnapshot({1}))
        good == [id |-> 1, valid |-> TRUE]
        bad == [id |-> 2, valid |-> FALSE]
        meta(v) == Some([version |-> v, shapeCount |-> 1])
    IN {EmptyBlob,
        BoardData({1}, 1),
        [EmptyBlob EXCEPT !.shapes = Some(<<good>>)],
        [EmptyBlob EXCEPT !.shapes = Some(<<good, bad>>), !.camera = Some(1)],
        [EmptyBlob EXCEPT !.storeSnapshot = snap, !.shapes = Some(<<good>>),
                          !.metadata = meta("1.0")],
        [EmptyBlob EXCEPT !.storeSnapshot = Some([store |-> {1}, loadable |-> FALSE]),
                          !.shapes = Some(<<good, bad>>),
                          !.metadata = meta(SaveVersion)],
        [EmptyBlob EXCEPT !.camera = Some(1)]}

\* The board view's own state before handleMount.
ViewUnmounted ==
    /\ boardName = NoName
    /\ page = {}
    /\ camera = 0
    /\ mounted = FALSE
    /\ epoch = 0
    /\ room = 0
    /\ listening = FALSE
    /\ debounce = FALSE
    /\ saving = FALSE
    /\ lastSaved = 0
    /\ saves = {}
    /\ nextSave = 1
    /\ load = [pc |-> "idle", resp |-> NoResp]
    /\ loadLog = NoLog
    /\ appliedLog = NothingApplied

\* No template is being loaded while the board view alone is looked at.
TemplatesIdle ==
    /\ tmpl = [template_data |-> EmptyBlob, usage_count |-> 0]
    /\ usage0 = 0
    /\ usageRows = 0
    /\ rowLock = 0
    /\ tl = [l \in LoadIds |-> IdleLoad]
    /\ tmplLog = NoLog

InitBoard ==
    /\ \E b \in StoredBlobs :
         rows = [i \in BoardIds |->
                   IF i = 1
                   THEN [exists |-> TRUE, user_id |-> Me, name |-> <<"a">>, board_data |-> b]
                   ELSE NoRow]
    /\ view = [currentView |-> "board", currentBoardId |-> 1]
    /\ ViewUnmounted
    /\ TemplatesIdle
    /\ ChatIdle
    /\ DashIdle
    /\ ImagesIdle
    /\ SignedIn
    /\ LibraryIdle

\* Back to the dashboard and into the same board again.
Reopen == OpenBoard(1)

NextBoard ==
    \/ HandleMount
    \/ ServeLoad
    \/ LoadContinue
    \/ AutoSaveEffect
    \/ UserEdit
    \/ IntervalSave
    \/ DebounceSave
    \/ ManualSave
    \/ BackendApplySave
    \/ SettleSave
    \/ FailSave
    \/ Unmount
    \/ Reopen



\* ------------------------------------------------------------ templates

\* A handleLoadTemplate that restores the legacy list whenever there is one.
HandleLoadTemplateLegacyFirst(t, pg, cam) ==
    IF HasLegacyShapes(t)
    THEN [page |-> CreateShapes(Get(t.shapes), {}),
          camera |-> RestoreCamera(t, cam),
          log |-> [path |-> "legacy", snapshotCalls |-> 0,
                   createCalls |-> Len(Get(t.shapes))]]
    ELSE [page |-> {}, camera |-> cam, log |-> NoLog]

\* A load that leaves the shapes of the page where they are.
KeepCurrentShapes(pg) == pg

\* editor.deleteShapes(currentShapes.map(shape => shape.id)) over
\* editor.getCurrentPageShapes(), skipped when the page has no shape.
DeleteCurrentShapes(pg) == IF Cardinality(pg) > 0 THEN pg \ pg ELSE pg

\* BoardView.handleLoadTemplate: the shapes of the page are deleted, then the
\* snapshot is tried, then the legacy list.
HandleLoadTemplate(t, pg, cam) ==
    IF SnapshotLoads(t)
    THEN [page |-> Get(t.storeSnapshot).store,
          camera |-> RestoreCamera(t, cam),
          log |-> [path |-> "snapshot", snapshotCalls |-> 1, createCalls |-> 0]]
    ELSE IF HasLegacyShapes(t)
    THEN [page |-> CreateShapes(Get(t.shapes), DeleteCurrentShapes(pg)),
          camera |-> RestoreCamera(t, cam),
          log |-> [path |-> "legacy",
                   snapshotCalls |-> IF TriesSnapshot(t) THEN 1 ELSE 0,
                   createCalls |-> Len(Get(t.shapes))]]
    ELSE [page |-> DeleteCurrentShapes(pg), camera |-> cam,
          log |-> [path |-> "nothing",
                   snapshotCalls |-> IF TriesSnapshot(t) THEN 1 ELSE 0,
                   createCalls |-> 0]]

\* A click on a saved template, in this session or in another one:
\* supabase.auth.getUser() is awaited.
ClickTemplate(l) ==
    /\ tl[l].pc = "idle"
    /\ \A k \in LoadIds : k < l => tl[k].pc # "idle"
    /\ \E m \in BOOLEAN : tl' = [tl EXCEPT ![l] = [IdleLoad EXCEPT !.pc = "auth", !.mine = m]]
    /\ UNCHANGED <<boardVars, tmpl, usage0, usageRows, rowLock, tmplLog>>
    /\ UNCHANGED tmplRest

\* getUser answers. With a user the template_usage insert is issued;
\* without one the tracking is skipped.
AuthAnswers(l) ==
    /\ tl[l].pc = "auth"
    /\ \E hasUser \in BOOLEAN :
         tl' = [tl EXCEPT ![l].pc = IF hasUser THEN "insert" ELSE "load"]
    /\ UNCHANGED <<boardVars, tmpl, usage0, usageRows, rowLock, tmplLog>>
    /\ UNCHANGED tmplRest

\* A tracking call whose failure is thrown into the handler's catch.
NextAfterTrackingThrows(ok, next) == IF ok THEN next ELSE "caught"

\* await supabase.from(...).insert(...) / await supabase.rpc(...): the call
\* resolves with a result whose error the handler does not read, and the
\* handler goes on to its next statement.
NextAfterTracking(ok, next) == next

\* The insert settles, with a row or with an error the code does not read;
\* the rpc is issued next.
InsertSettles(l) ==
    /\ tl[l].pc = "insert"
    /\ \E ok \in BOOLEAN :
         /\ usageRows' = IF ok THEN usageRows + 1 ELSE usageRows
         /\ tl' = [tl EXCEPT ![l].pc = NextAfterTracking(ok, "rpc"), ![l].inserted = ok]
    /\ UNCHANGED <<boardVars, tmpl, usage0, rowLock, tmplLog>>
    /\ UNCHANGED tmplRest

\* UPDATE public.templates SET usage_count = usage_count + 1 WHERE id = ...
\* takes the row's lock before it reads the row: a second UPDATE of the row
\* waits until the first has committed.
RowLockIgnored == TRUE
RowLockFree == rowLock = 0

RpcLocksRow(l) ==
    /\ tl[l].pc = "rpc"
    /\ RowLockFree
    /\ rowLock' = l
    /\ tl' = [tl EXCEPT ![l].pc = "locked", ![l].read = tmpl.usage_count]
    /\ UNCHANGED <<boardVars, tmpl, usage0, usageRows, tmplLog>>
    /\ UNCHANGED tmplRest

RpcCommits(l) ==
    /\ tl[l].pc = "locked"
    /\ tmpl' = [tmpl EXCEPT !.usage_count = tl[l].read + 1]
    /\ rowLock' = 0
    /\ tl' = [tl EXCEPT ![l].pc = "load", ![l].counted = TRUE]
    /\ UNCHANGED <<boardVars, usage0, usageRows, tmplLog>>
    /\ UNCHANGED tmplRest

\* The rpc does not reach the function: the count is not touched and the
\* error in the result is not read.
RpcFails(l) ==
    /\ tl[l].pc = "rpc"
    /\ tl' = [tl EXCEPT ![l].pc = NextAfterTracking(FALSE, "load")]
    /\ UNCHANGED <<boardVars, tmpl, usage0, usageRows, rowLock, tmplLog>>
    /\ UNCHANGED tmplRest

\* onLoadTemplate(template); setIsExpanded(false). Another session's canvas
\* is not part of the state.
LoadOntoBoard(l) ==
    /\ tl[l].pc = "load"
    /\ tl' = [tl EXCEPT ![l].pc = "done", ![l].loaded = TRUE]
    /\ IF tl[l].mine /\ mounted
       THEN LET r == HandleLoadTemplate(tmpl.template_data, page, camera) IN
              /\ page' = r.page
              /\ camera' = r.camera
              /\ tmplLog' = r.log
              /\ debounce' = HandleChange(r.page, r.camera)
       ELSE UNCHANGED <<page, camera, tmplLog, debounce>>
    /\ UNCHANGED <<rows, view, boardName, mounted, epoch, room, listening, saving,
                   lastSaved, saves, nextSave, load, loadLog, appliedLog,
                   tmpl, usage0, usageRows, rowLock>>
    /\ UNCHANGED tmplRest

\* The template_data a templates row can hold: as SaveTemplateModal writes it
\* (snapshot and list), with a snapshot that differs from the list, with a
\* snapshot this build does not accept, the legacy list alone, neither, and
\* a snapshot this build does not accept with no list.
TemplateBlobs ==
    LET good == [id |-> 1, valid |-> TRUE]
        bad == [id |-> 2, valid |-> FALSE]
    IN {BoardData({1}, 1),
        [BoardData({1}, 0) EXCEPT !.storeSnapshot = Some([store |-> {1, 2}, loadable |-> TRUE])],
        [BoardData({1}, 0) EXCEPT !.storeSnapshot = Some([store |-> {1, 2}, loadable |-> FALSE]),
                                  !.shapes = Some(<<good, bad>>)],
        [EmptyBlob EXCEPT !.shapes = Some(<<good, good>>)],
        [EmptyBlob EXCEPT !.camera = Some(1)],
        [EmptyBlob EXCEPT !.storeSnapshot = Some([store |-> {1, 2}, loadable |-> FALSE])]}

InitTemplate ==
    /\ rows = [i \in BoardIds |->
                 IF i = 1
                 THEN [exists |-> TRUE, user_id |-> Me, name |-> <<"a">>,
                       board_data |-> EmptyBlob]
                 ELSE NoRow]
    /\ view = [currentView |-> "board", currentBoardId |-> 1]
    /\ boardName = <<"a">>
    /\ page \in {{}, {1, 2}}
    /\ camera = 0
    /\ mounted = TRUE
    /\ epoch = 1
    /\ room = 1
    /\ listening = FALSE
    /\ debounce = FALSE
    /\ saving = FALSE
    /\ lastSaved = 0
    /\ saves = {}
    /\ nextSave = 1
    /\ load = [pc |-> "done", resp |-> NoResp]
    /\ loadLog = NoLog
    /\ appliedLog = NothingApplied
    /\ \E t \in TemplateBlobs, n \in 0..1 :
         /\ tmpl = [template_data |-> t, usage_count |-> n]
         /\ usage0 = n
    /\ usageRows = 0
    /\ rowLock = 0
    /\ tl = [l \in LoadIds |-> IdleLoad]
    /\ tmplLog = NoLog
    /\ ChatIdle
    /\ DashIdle
    /\ ImagesIdle
    /\ SignedIn
    /\ LibraryIdle

NextTemplate ==
    \/ \E l \in LoadIds : ClickTemplate(l)
    \/ \E l \in LoadIds : AuthAnswers(l)
    \/ \E l \in LoadIds : InsertSettles(l)
    \/ \E l \in LoadIds : RpcLocksRow(l)
    \/ \E l \in LoadIds : RpcCommits(l)
    \/ \E l \in LoadIds : RpcFails(l)
    \/ \E l \in LoadIds : LoadOntoBoard(l)
    \/ UserEdit

SpecTemplate == InitTemplate /\ [][NextTemplate]_vars

SpecBoard == InitBoard /\ [][NextBoard]_vars

\* ------------------------------------------------ chat panel on a board
\* A board is open and loaded, the auto-save effect is active, the panel
\* shows the welcome message.
InitChat ==
    /\ rows = [i \in BoardIds |->
                 IF i = 1
                 THEN [exists |-> TRUE, user_id |-> Me, name |-> <<"a">>,
                       board_data |-> EmptyBlob]
                 ELSE NoRow]
    /\ view = [currentView |-> "board", currentBoardId |-> 1]
    /\ boardName = <<"a">>
    /\ page \in {{}, {1}}
    /\ camera = 0
    /\ mounted = TRUE
    /\ epoch = 1
    /\ room = 1
    /\ listening = TRUE
    /\ debounce = FALSE
    /\ saving = FALSE
    /\ lastSaved = 0
    /\ saves = {}
    /\ nextSave = 1
    /\ load = [pc |-> "done", resp |-> NoResp]
    /\ loadLog = NoLog
    /\ appliedLog = NothingApplied
    /\ TemplatesIdle
    /\ PanelIdle
    /\ apiKey \in BOOLEAN
    /\ DashIdle
    /\ ImagesIdle
    /\ SignedIn
    /\ LibraryIdle

NextChat ==
    \/ \E input \in Names : SendMessage(input)
    \/ UserInsertSettles
    \/ ChatReplyArrives
    \/ AssistantInsertSettles
    \/ \E script \in Names : ProcessScript(script)
    \/ ScriptReplyArrives
    \/ UserEdit

SpecChat == InitChat /\ [][NextChat]_vars

\* A board is open and loaded and its chat panel has just rendered: no
\* message is shown yet, the history has not been asked for, and no key is
\* configured, so that every submission ends with the error message.
InitHistory ==
    /\ rows = [i \in BoardIds |->
                 IF i = 1
                 THEN [exists |-> TRUE, user_id |-> Me, name |-> <<"a">>,
                       board_data |-> EmptyBlob]
                 ELSE NoRow]
    /\ view = [currentView |-> "board", currentBoardId |-> 1]
    /\ boardName = <<"a">>
    /\ page = {}
    /\ camera = 0
    /\ mounted = TRUE
    /\ epoch = 1
    /\ room = 1
    /\ listening = TRUE
    /\ debounce = FALSE
    /\ saving = FALSE
    /\ lastSaved = 0
    /\ saves = {}
    /\ nextSave = 1
    /\ load = [pc |-> "done", resp |-> NoResp]
    /\ loadLog = NoLog
    /\ appliedLog = NothingApplied
    /\ TemplatesIdle
    /\ messages = <<>>
    /\ isLoading = FALSE
    /\ chat = NoChat
    /\ chatRows = <<>>
    /\ sends = 0
    /\ hist = NoHistory
    /\ apiKey = FALSE
    /\ DashIdle
    /\ ImagesIdle
    /\ SignedIn
    /\ LibraryIdle

NextHistory ==
    \/ LoadChatHistory
    \/ ServeHistory
    \/ SettleHistory
    \/ OtherSessionInserts
    \/ \E input \in Names : SendMessage(input)
    \/ UserInsertSettles
    \/ AssistantInsertSettles

SpecHistory == InitHistory /\ [][NextHistory]_vars

\* ------------------------------------------------ images of the panel
InitImages ==
    /\ rows = [i \in BoardIds |->
                 IF i = 1
                 THEN [exists |-> TRUE, user_id |-> Me, name |-> <<"a">>,
                       board_data |-> EmptyBlob]
                 ELSE NoRow]
    /\ view = [currentView |-> "board", currentBoardId |-> 1]
    /\ boardName = <<"a">>
    /\ page = {}
    /\ camera = 0
    /\ mounted = TRUE
    /\ epoch = 1
    /\ room = 1
    /\ listening = TRUE
    /\ debounce = FALSE
    /\ saving = FALSE
    /\ lastSaved = 0
    /\ saves = {}
    /\ nextSave = 1
    /\ load = [pc |-> "done", resp |-> NoResp]
    /\ loadLog = NoLog
    /\ appliedLog = NothingApplied
    /\ TemplatesIdle
    /\ ChatIdle
    /\ DashIdle
    /\ ImagesIdle
    /\ SignedIn
    /\ LibraryIdle

NextImages ==
    \/ \E i \in ImageIds : HandleFileUpload(i)
    \/ \E i \in ImageIds : UploadStores(i)
    \/ \E i \in ImageIds : UploadInserts(i)
    \/ \E k \in 1..MaxImages : RemoveImage(k)
    \/ \E i \in ImageIds : StorageRemoveSettles(i)
    \/ \E i \in ImageIds : RowDeleteSettles(i)

\* Images are uploaded to the panel and removed from it.
SpecImages == InitImages /\ [][NextImages]_vars

\* ------------------------------------------- restoring what was stored
\* Blobs whose snapshot this build's loadSnapshot throws on, with a legacy
\* list whose first record the engine rejects, with an empty list and with
\* none; and a blob as saveBoard writes it.
RestoreBlobs ==
    LET good == [id |-> 1, valid |-> TRUE]
        bad == [id |-> 2, valid |-> FALSE]
        thrown == Some([store |-> {1, 2}, loadable |-> FALSE])
    IN {[BoardData({1}, 1) EXCEPT !.storeSnapshot = thrown,
                                  !.shapes = Some(<<bad, good, good>>)],
        [BoardData({}, 1) EXCEPT !.storeSnapshot = thrown],
        [EmptyBlob EXCEPT !.storeSnapshot = thrown],
        BoardData({1}, 1)}

\* A board and a template are stored; the board view has not mounted yet.
InitRestore ==
    /\ \E b \in RestoreBlobs :
         rows = [i \in BoardIds |->
                   IF i = 1
                   THEN [exists |-> TRUE, user_id |-> Me, name |-> <<"a">>, board_data |-> b]
                   ELSE NoRow]
    /\ view = [currentView |-> "board", currentBoardId |-> 1]
    /\ ViewUnmounted
    /\ \E t \in RestoreBlobs :
         tmpl = [template_data |-> t, usage_count |-> 0]
    /\ usage0 = 0
    /\ usageRows = 0
    /\ rowLock = 0
    /\ tl = [l \in LoadIds |-> IdleLoad]
    /\ tmplLog = NoLog
    /\ ChatIdle
    /\ DashIdle
    /\ ImagesIdle
    /\ SignedIn
    /\ LibraryIdle

NextRestore ==
    \/ HandleMount
    \/ ServeLoad
    \/ LoadContinue
    \/ \E l \in LoadIds : ClickTemplate(l)
    \/ \E l \in LoadIds : AuthAnswers(l)
    \/ \E l \in LoadIds : InsertSettles(l)
    \/ \E l \in LoadIds : RpcLocksRow(l)
    \/ \E l \in LoadIds : RpcCommits(l)
    \/ \E l \in LoadIds : RpcFails(l)
    \/ \E l \in LoadIds : LoadOntoBoard(l)

SpecRestore == InitRestore /\ [][NextRestore]_vars

\* -------------------------------------------------- auto-save at work
\* A board is open and loaded; the auto-save effect is about to run.
InitAutosave ==
    /\ rows = [i \in BoardIds |->
                 IF i = 1
                 THEN [exists |-> TRUE, user_id |-> Me, name |-> <<"a">>,
                       board_data |-> EmptyBlob]
                 ELSE NoRow]
    /\ view = [currentView |-> "board", currentBoardId |-> 1]
    /\ boardName = <<"a">>
    /\ page \in {{}, {1}}
    /\ camera = 0
    /\ mounted = TRUE
    /\ epoch = 1
    /\ room = 1
    /\ listening = FALSE
    /\ debounce = FALSE
    /\ saving = FALSE
    /\ lastSaved = 0
    /\ saves = {}
    /\ nextSave = 1
    /\ load = [pc |-> "done", resp |-> NoResp]
    /\ loadLog = NoLog
    /\ appliedLog = NothingApplied
    /\ TemplatesIdle
    /\ ChatIdle
    /\ DashIdle
    /\ ImagesIdle
    /\ SignedIn
    /\ LibraryIdle

NextAutosave ==
    \/ AutoSaveEffect
    \/ UserEdit
    \/ IntervalSave
    \/ DebounceSave
    \/ ManualSave
    \/ BackendApplySave
    \/ SettleSave
    \/ FailSave
    \/ Unmount

\* The timers of the effect fire when they are due: a pending saveTimeout
\* that is not cleared runs saveBoard.
SpecAutosave == InitAutosave /\ [][NextAutosave]_vars /\ WF_vars(DebounceSave)

\* ------------------------------------------------ everything that writes
\* A board is open and loaded, the auto-save effect is about to run, nothing
\* has been saved yet, and the template library is empty.
InitWrites ==
    /\ rows = [i \in BoardIds |->
                 IF i = 1
                 THEN [exists |-> TRUE, user_id |-> Me, name |-> <<"a">>,
                       board_data |-> EmptyBlob]
                 ELSE NoRow]
    /\ view = [currentView |-> "board", currentBoardId |-> 1]
    /\ boardName = <<"a">>
    /\ page \in {{}, {1}}
    /\ camera = 0
    /\ mounted = TRUE
    /\ epoch = 1
    /\ room = 1
    /\ listening = FALSE
    /\ debounce = FALSE
    /\ saving = FALSE
    /\ lastSaved = 0
    /\ saves = {}
    /\ nextSave = 1
    /\ load = [pc |-> "done", resp |-> NoResp]
    /\ loadLog = NoLog
    /\ appliedLog = NothingApplied
    /\ TemplatesIdle
    /\ ChatIdle
    /\ DashIdle
    /\ ImagesIdle
    /\ SignedIn
    /\ LibraryIdle

NextWrites ==
    \/ AutoSaveEffect
    \/ UserEdit
    \/ IntervalSave
    \/ DebounceSave
    \/ ManualSave
    \/ BackendApplySave
    \/ SettleSave
    \/ OpenSaveTemplate
    \/ HandleSave(<<"a">>, FALSE)
    \/ SaveAuthAnswers
    \/ SaveInsertSettles

\* Autosave, manual save and template save on one board.
SpecWrites == InitWrites /\ [][NextWrites]_vars

\* --------------------------------------------- the gate and the tree
\* The auth platform's first event: the session has been looked up, and
\* it holds an identity or none.
AuthResolves ==
    /\ authLoading
    /\ authLoading' = FALSE
    /\ user' \in {NoUser, Me}
    /\ UNCHANGED <<boardVars, tmplVars, chatVars, dashVars, imgVars, libVars>>

\* The auth platform reports a sign-in.
AuthSignedIn ==
    /\ ~authLoading
    /\ user = NoUser
    /\ user' = Me
    /\ UNCHANGED authLoading
    /\ UNCHANGED <<boardVars, tmplVars, chatVars, dashVars, imgVars, libVars>>

\* The auth platform reports a sign-out: AppContent returns <AuthPage />,
\* so the Dashboard or the BoardView on screen unmounts. AppContent stays
\* mounted and keeps currentView and currentBoardId.
AuthSignedOut ==
    /\ ~authLoading
    /\ user # NoUser
    /\ user' = NoUser
    /\ UNCHANGED authLoading
    /\ dashUp' = FALSE
    /\ fetch' = NoFetch
    /\ dels' = [b \in BoardIds |-> [dels[b] EXCEPT !.live = FALSE, !.closure = <<>>]]
    /\ mounted' = FALSE
    /\ listening' = FALSE
    /\ debounce' = ClearTimeout(debounce)
    /\ saving' = FALSE
    /\ lastSaved' = 0
    /\ boardName' = NoName
    /\ load' = [pc |-> "idle", resp |-> NoResp]
    /\ UNCHANGED <<rows, view, page, camera, epoch, room, saves, nextSave, loadLog,
                   appliedLog>>
    /\ UNCHANGED <<boards, create, created, deletedOk>>
    /\ UNCHANGED <<tmplVars, chatVars, imgVars, libVars>>

\* The app starts: the session is being looked up, AppContent holds the
\* dashboard view and no board.
InitApp ==
    /\ \E b \in {EmptyBlob, BoardData({1}, 1)}, owner \in Users, there \in BOOLEAN :
         rows = [i \in BoardIds |->
                   IF i = 1
                   THEN [exists |-> TRUE, user_id |-> Me, name |-> <<"a">>, board_data |-> b]
                   ELSE IF i = 2 /\ there
                   THEN [exists |-> TRUE, user_id |-> owner, name |-> <<"a">>,
                         board_data |-> EmptyBlob]
                   ELSE NoRow]
    /\ view = [currentView |-> "dashboard", currentBoardId |-> 0]
    /\ ViewUnmounted
    /\ TemplatesIdle
    /\ ChatIdle
    /\ DashIdle
    /\ ImagesIdle
    /\ LibraryIdle
    /\ user = NoUser
    /\ authLoading = TRUE

NextApp ==
    \/ AuthResolves
    \/ AuthSignedIn
    \/ AuthSignedOut
    \/ DashboardMount
    \/ ServeFetch
    \/ SettleFetch
    \/ \E b \in BoardIds : ClickBoard(b)
    \/ HandleMount
    \/ Unmount

\* Sign-in and sign-out while the dashboard and the board view are used.
SpecApp == InitApp /\ [][NextApp]_vars

\* ------------------------------------------- the library on a board
\* The templates table when the session starts: a template of another user,
\* private or public or none, and one of this user, private or public or
\* none.
InitLibrary ==
    /\ rows = [i \in BoardIds |->
                 IF i = 1
                 THEN [exists |-> TRUE, user_id |-> Me, name |-> <<"a">>,
                       board_data |-> EmptyBlob]
                 ELSE NoRow]
    /\ view = [currentView |-> "board", currentBoardId |-> 1]
    /\ boardName = <<"a">>
    /\ page \in {{}, {1, 2}}
    /\ camera \in Cameras
    /\ mounted = TRUE
    /\ epoch = 1
    /\ room = 1
    /\ listening = TRUE
    /\ debounce = FALSE
    /\ saving = FALSE
    /\ lastSaved = 0
    /\ saves = {}
    /\ nextSave = 1
    /\ load = [pc |-> "done", resp |-> NoResp]
    /\ loadLog = NoLog
    /\ appliedLog = NothingApplied
    /\ TemplatesIdle
    /\ ChatIdle
    /\ DashIdle
    /\ ImagesIdle
    /\ SignedIn
    /\ \E others \in {"none", "private", "public"}, mine \in {"none", "private", "public"} :
         templateRows =
            [t \in TemplateIds |->
               IF t = 1 /\ others # "none"
               THEN [exists |-> TRUE, user_id |-> "u2", is_public |-> others = "public",
                     name |-> <<"a">>, template_data |-> TemplateData({1}, 0)]
               ELSE IF t = 2 /\ mine # "none"
               THEN [exists |-> TRUE, user_id |-> Me, is_public |-> mine = "public",
                     name |-> <<"a">>, template_data |-> TemplateData({1}, 0)]
               ELSE NoTemplateRow]
    /\ templates = <<>>
    /\ tfetch = NoTemplateFetch
    /\ modal = ModalClosed

NextLibrary ==
    \/ LoadTemplates
    \/ ServeTemplates
    \/ SettleTemplates
    \/ OpenSaveTemplate
    \/ \E n \in Names, pub \in BOOLEAN : HandleSave(n, pub)
    \/ SaveAuthAnswers
    \/ SaveInsertSettles

\* Saved templates are listed and the board is saved as a template.
SpecLibrary == InitLibrary /\ [][NextLibrary]_vars

\* ------------------------------------------- dashboard and board view
\* The rows the backend holds when the session starts: a board of the user,
\* saved or never saved, and a second row that is missing, the user's or
\* another user's.
InitDash ==
    /\ \E b \in {EmptyBlob, BoardData({1}, 1)}, owner \in Users, there \in BOOLEAN :
         rows = [i \in BoardIds |->
                   IF i = 1
                   THEN [exists |-> TRUE, user_id |-> Me, name |-> <<"a">>, board_data |-> b]
                   ELSE IF i = 2 /\ there
                   THEN [exists |-> TRUE, user_id |-> owner, name |-> <<"a">>,
                         board_data |-> EmptyBlob]
                   ELSE NoRow]
    /\ view = [currentView |-> "dashboard", currentBoardId |-> 0]
    /\ ViewUnmounted
    /\ TemplatesIdle
    /\ ChatIdle
    /\ DashIdle
    /\ ImagesIdle
    /\ SignedIn
    /\ LibraryIdle

NextDash ==
    \/ DashboardMount
    \/ ServeFetch
    \/ SettleFetch
    \/ \E b \in BoardIds : ClickDelete(b)
    \/ \E b \in BoardIds : BackendDelete(b)
    \/ \E b \in BoardIds : SettleDelete(b)
    \/ \E b \in BoardIds : FailDelete(b)
    \/ \E n \in Names : CreateBoard(n)
    \/ CreateSucceeds
    \/ CreateFails
    \/ \E b \in BoardIds : ClickBoard(b)
    \/ HandleMount
    \/ Unmount

\* The board list: fetched, boards deleted and created, a board opened and
\* left again.
SpecDash == InitDash /\ [][NextDash]_vars

NextCreate ==
    \/ DashboardMount
    \/ ServeFetch
    \/ SettleFetch
    \/ \E n \in Names : CreateBoard(n)
    \/ CreateSucceeds
    \/ CreateFails
    \/ LoadBoardMeta
    \/ HandleMount
    \/ ServeLoad
    \/ LoadContinue
    \/ AutoSaveEffect
    \/ UserEdit
    \/ DebounceSave
    \/ BackendApplySave
    \/ SettleSave

\* A board is created and the board view that opens on it runs.
SpecCreate == InitDash /\ [][NextCreate]_vars

\* ------------------------------------------------------------ properties
LoadedBlob == load.resp.board_data
LoadAnswered == load.pc = "done" /\ ~load.resp.error
LoadStep == load.pc = "resp" /\ load'.pc = "done"

\* C2 as stated: a non-empty stored blob is handed to loadSnapshot if and
\* only if it holds a snapshot tagged metadata.version '2.0'; every other
\* non-empty blob is restored by one createShape per legacy record.
C2_SnapshotIffCurrentVersion ==
    (LoadAnswered /\ HasSavedData(LoadedBlob)) =>
        /\ (loadLog.snapshotCalls = 1) <=> TriesSnapshotOfCurrentVersion(LoadedBlob)
        /\ ~TriesSnapshotOfCurrentVersion(LoadedBlob) =>
               loadLog.createCalls = LegacyLen(LoadedBlob)

\* C2 as amended: a non-empty stored blob is handed to loadSnapshot if and
\* only if it holds a storeSnapshot, whatever its version tag; when
\* loadSnapshot returns no createShape call is made; a blob with no snapshot,
\* or whose loadSnapshot throws, is restored by one createShape call per
\* record of its legacy list (none when the list is missing or empty).
C2_SnapshotIffPresent ==
    (LoadAnswered /\ HasSavedData(LoadedBlob)) =>
        /\ (loadLog.snapshotCalls = 1) <=> IsPresent(LoadedBlob.storeSnapshot)
        /\ loadLog.path = "snapshot" => loadLog.createCalls = 0
        /\ loadLog.path # "snapshot" => loadLog.createCalls = LegacyLen(LoadedBlob)

\* A snapshot tagged with another version has been handed to loadSnapshot.
C2_Witness ==
    /\ LoadAnswered
    /\ IsPresent(LoadedBlob.storeSnapshot)
    /\ VersionOf(LoadedBlob) = "1.0"
    /\ loadLog.snapshotCalls = 1
    /\ loadLog.path = "snapshot"

C4_LastAppliedWins ==
    appliedLog.last # 0 => rows[appliedLog.boardId].board_data = appliedLog.payload

\* Two writes were in flight together and the older one was applied last.
C4_Witness ==
    /\ appliedLog.last # 0
    /\ appliedLog.last < appliedLog.highest
    /\ rows[appliedLog.boardId].board_data = appliedLog.payload
    /\ appliedLog.payload # BoardData(page, camera)

\* The step that ends a save whose write the backend did not apply.
SaveFailsStep(s) == s.stage = "sent" /\ \A t \in saves' : t.id # s.id

\* C6: the step that ends a failed save write leaves the row and lastSaved
\* as they were, issues no write, and sets saving to false.
C6_FailedSaveIsSwallowed ==
    [][\A s \in saves : SaveFailsStep(s) =>
          /\ rows' = rows
          /\ nextSave' = nextSave
          /\ saves' \subseteq saves
          /\ lastSaved' = lastSaved
          /\ (mounted /\ s.epoch = epoch) => saving' = FALSE]_vars

\* One save was issued after an earlier one had succeeded, it failed, and
\* the view shows the earlier save's time and no spinner.
C6_Witness ==
    /\ mounted
    /\ nextSave = 3
    /\ saves = {}
    /\ appliedLog.last = 1
    /\ appliedLog.highest = 1
    /\ lastSaved = 1
    /\ ~saving
    /\ epoch = 1

\* A template load reaches the canvas of this session.
TemplateLands(l) ==
    tl[l].pc = "load" /\ tl'[l].pc = "done" /\ tl[l].mine /\ mounted

\* C1: a template holding both a storeSnapshot and a non-empty shapes list,
\* whose loadSnapshot succeeds, leaves on the page the snapshot's shapes and
\* nothing else, and no createShape call is made for the list.
C1_TemplateSnapshotOnly ==
    [][\A l \in LoadIds :
          (/\ TemplateLands(l)
           /\ IsPresent(tmpl.template_data.storeSnapshot)
           /\ HasLegacyShapes(tmpl.template_data)
           /\ Get(tmpl.template_data.storeSnapshot).loadable)
          => /\ page' = Get(tmpl.template_data.storeSnapshot).store
             /\ tmplLog'.snapshotCalls = 1
             /\ tmplLog'.createCalls = 0]_vars

\* A template whose snapshot holds more shapes than its list was loaded, and
\* the page holds the snapshot's shapes.
C1_Witness ==
    /\ \E l \in LoadIds : tl[l].pc = "done" /\ tl[l].mine
    /\ IsPresent(tmpl.template_data.storeSnapshot)
    /\ HasLegacyShapes(tmpl.template_data)
    /\ tmplLog.path = "snapshot"
    /\ tmplLog.createCalls = 0
    /\ page = Get(tmpl.template_data.storeSnapshot).store
    /\ page # CreateShapes(Get(tmpl.template_data.shapes), {})

\* C5: usage_count has grown by exactly one for every increment_template_usage
\* call that has completed, so by two once two concurrent loads have both
\* completed theirs.
C5_UsageCountsEveryLoad ==
    tmpl.usage_count = usage0 + Cardinality({l \in LoadIds : tl[l].counted})

\* Every load's rpc has completed while no load had yet reached the canvas:
\* the handlers ran side by side.
C5_Witness ==
    /\ \A l \in LoadIds : tl[l].pc = "load" /\ tl[l].counted
    /\ Cardinality(LoadIds) >= 2
    /\ tmpl.usage_count = usage0 + Cardinality(LoadIds)

\* C9: a board whose deleteBoard was confirmed and whose delete succeeded has
\* no row, is not in the list on screen, and is in no fetchBoards result
\* asked for afterwards.
C9_DeletedBoardStaysGone ==
    \A b \in deletedOk :
        /\ ~rows[b].exists
        /\ dashUp => b \notin Range(boards)
        /\ (fetch.pc = "resp" /\ b \in fetch.after) => b \notin Range(fetch.data)

\* Two deletes were under way together and both have succeeded; the list on
\* screen shows a board that has no row.
C9_StaleListShown ==
    /\ dashUp
    /\ fetch.pc = "shown"
    /\ Cardinality(deletedOk) >= 2
    /\ \E b \in deletedOk : b \in Range(boards) /\ ~rows[b].exists

\* The mount that opens the board createBoard has just made.
OpensCreated == created.id # 0 /\ cur = created.id /\ epoch = created.epoch

\* C10: the board createBoard made, opened right away, shows the trimmed
\* name, its board_data is read as empty, and the load runs neither the
\* snapshot path nor the legacy path.
C10_CreatedBoardOpensEmpty ==
    /\ (OpensCreated /\ boardName # NoName) => boardName = Trim(created.name)
    /\ (OpensCreated /\ LoadAnswered) =>
           /\ ~HasSavedData(LoadedBlob)
           /\ loadLog.path = "welcome"

\* The new board's first load has read a blob that a save of the same mount
\* wrote before the read was answered.
C10_SavedBeforeLoaded ==
    /\ OpensCreated
    /\ LoadAnswered
    /\ loadLog.path = "snapshot"
    /\ appliedLog.epoch = epoch
    /\ LoadedBlob = appliedLog.payload

\* The model's reply holds no JSON payload that can be parsed: no json code
\* block, or JSON.parse throws on the block's text.
NoJsonPayload(content) == ~JsonMatch(content) \/ ~JsonParses(JsonString(content))

ChatReplyStep ==
    chat.pc = "fetch" /\ chat.mode = "chat" /\ chat'.pc = "saveAssistant" /\ chat'.ok
ChatEndStep == chat.pc = "saveAssistant" /\ chat'.pc = "idle"

\* C7 as stated: in chat mode every reply without a parseable JSON payload is
\* appended verbatim as one assistant message, no shape is created or
\* deleted, and sendMessage ends with isLoading false.
C7_UnparseableShownVerbatim ==
    [][/\ (ChatReplyStep /\ NoJsonPayload(chat'.reply)) =>
            /\ messages' = Append(messages, AssistantMessage(chat'.reply))
            /\ page' = page
       /\ ChatEndStep => (isLoading' = FALSE /\ messages' = messages)]_vars

\* C7 as amended: in chat mode every reply with a non-empty text and without
\* a parseable JSON payload is appended verbatim as one assistant message; a
\* reply whose text is empty or missing is shown as the fixed text "Sorry, I
\* encountered an error."; in both cases no shape is created or deleted and
\* sendMessage ends with isLoading false.
C7_NonEmptyUnparseableShownVerbatim ==
    [][/\ (ChatReplyStep /\ NoJsonPayload(chat'.reply)) =>
            /\ messages' =
                  Append(messages,
                         AssistantMessage(IF chat'.reply = <<>> THEN Sorry
                                          ELSE chat'.reply))
            /\ page' = page
       /\ ChatEndStep => (isLoading' = FALSE /\ messages' = messages)]_vars

\* A reply whose json block does not parse has been shown as it came, and
\* sendMessage has ended.
C7_Witness ==
    /\ chat.pc = "idle"
    /\ chat.mode = "chat"
    /\ sends > 0
    /\ chat.ok
    /\ JsonMatch(chat.reply)
    /\ ~JsonParses(JsonString(chat.reply))
    /\ messages[Len(messages)] = AssistantMessage(chat.reply)
    /\ ~isLoading

ScriptReplyStep ==
    chat.pc = "fetch" /\ chat.mode = "script" /\ chat'.pc = "idle" /\ chat'.ok

PayloadStep(action) ==
    /\ chat.pc = "fetch"
    /\ chat'.pc \in {"saveAssistant", "idle"}
    /\ chat'.ok
    /\ IsPresent(chat'.doc)
    /\ ReplyAction(ReplyText(chat'.reply)) = action
    /\ chat'.mode = "script" => action = "{create_shapes}"

UsesGivenValues(i) ==
    LET e == Get(chat.doc)[i]
        c == chat.calls[i]
    IN /\ IsPresent(e.x) => c.x = OnPage(Get(e.x))
       /\ IsPresent(e.y) => c.y = OnPage(Get(e.y))
       /\ (e.type = "geo" /\ IsPresent(e.size.width)) => c.w = e.size.width
       /\ (e.type = "geo" /\ IsPresent(e.size.height)) => c.h = e.size.height
       /\ (e.type = "arrow" /\ IsPresent(e.size.length)) => c.length = e.size.length

\* C14: in createBoardShape and updateEntireBoard the default position and
\* size are used only for a field the described shape leaves out: every x,
\* y, width, height or length the payload gives, 0 included, is the value
\* the shape is created with.
C14_GivenValuesAreUsed ==
    \A i \in 1..Len(chat.calls) : UsesGivenValues(i)

C16_OnlyPublicOrOwnTemplates ==
    \A t \in Range(tfetch.data) \cup Range(templates) :
        templateRows[t].is_public \/ templateRows[t].user_id = Me

ChangeEventStep == listening /\ mounted' /\ (page' # page \/ camera' # camera)

\* The pending saveTimeout goes away in a view that stays mounted.
TimerEndsStep == debounce /\ ~debounce' /\ mounted'

\* C18: while the board view stays mounted, every change event leaves the
\* debounce timer pending, one timer at most; the timer ends only by firing,
\* and its firing initiates exactly one save, which captures the page as
\* the burst's last event left it; a save initiated otherwise, the interval
\* save included, leaves a pending timer pending; and a pending timer
\* always leads to its save, as long as saves can still be issued.
C18_BurstLeadsToOneSave ==
    /\ [][/\ ChangeEventStep => debounce'
          /\ TimerEndsStep =>
                /\ page' = page /\ camera' = camera
                /\ nextSave' = nextSave + 1
                /\ Cardinality(saves' \ saves) = 1
                /\ \A s \in saves' \ saves :
                      s.id = nextSave /\ s.payload = BoardData(page, camera)
          /\ (nextSave' # nextSave /\ ~TimerEndsStep) => debounce' = debounce]_vars
    /\ (debounce /\ nextSave <= MaxSaves) ~> (~debounce \/ nextSave > MaxSaves)

\* A burst of two changes has been followed by the one save of its timer,
\* which holds both changes, after an interval save had run during the
\* burst.
C18_Witness ==
    /\ mounted
    /\ listening
    /\ ~debounce
    /\ Cardinality(page) = 2
    /\ nextSave = 3
    /\ \E s \in saves : s.id = 1 /\ s.count = 1
    /\ \E s \in saves : s.id = 2 /\ s.count = 2 /\ s.payload = BoardData(page, camera)

\* loadSnapshot is called on the blob and throws.
SnapshotThrows(b) == TriesSnapshot(b) /\ ~Get(b.storeSnapshot).loadable

\* The records of a legacy list whose createShape does not throw.
Accepted(list) == {i \in DOMAIN list : list[i].valid}

\* What the fallback leaves behind for blob b: one createShape call per
\* record of a non-empty list and one shape per record the engine accepts,
\* on a page cleared before; no call and no shape otherwise.
FellBack(b, log, before, after) ==
    /\ log.snapshotCalls = 1
    /\ log.path # "error"
    /\ IF HasLegacyShapes(b)
       THEN /\ log.path = "legacy"
            /\ log.createCalls = Len(Get(b.shapes))
            /\ Cardinality(after) = Cardinality(Accepted(Get(b.shapes)))
       ELSE /\ log.createCalls = 0
            /\ after = before

\* C19: when loadSnapshot throws while a board or a template is restored,
\* the load goes on to the legacy list: a non-empty list gets one
\* createShape call per record, the records whose call throws are skipped
\* and the ones after them are still created, and the load ends as a
\* finished load, not as a failed one.
C19_SnapshotThrowFallsBackToList ==
    [][/\ (LoadStep /\ ~load.resp.error /\ SnapshotThrows(LoadedBlob)) =>
             /\ load'.pc = "done"
             /\ FellBack(LoadedBlob, loadLog', page, page')
       /\ \A l \in LoadIds :
             (TemplateLands(l) /\ SnapshotThrows(tmpl.template_data)) =>
                 /\ tl'[l].pc = "done"
                 /\ FellBack(tmpl.template_data, tmplLog', {}, page')]_vars

\* A board and a template whose snapshots throw and whose lists start with
\* a record the engine rejects have both been restored: three createShape
\* calls each, two shapes on the page.
C19_Witness ==
    /\ LoadAnswered
    /\ SnapshotThrows(LoadedBlob)
    /\ loadLog.path = "legacy"
    /\ loadLog.createCalls = 3
    /\ \E l \in LoadIds : tl[l].pc = "done" /\ tl[l].mine
    /\ SnapshotThrows(tmpl.template_data)
    /\ tmplLog.path = "legacy"
    /\ tmplLog.createCalls = 3
    /\ Cardinality(page) = 2

\* The ids of the records of a legacy list.
ListedIds(list) == {list[i].id : i \in DOMAIN list}

\* A blob of the v2.0 format: the snapshot of the whole store, whose shapes
\* are the ones the list names, the camera, the version tag, and a
\* shapeCount that is the length of the list.
IsFullBlob(b) ==
    /\ IsPresent(b.storeSnapshot)
    /\ IsPresent(b.camera)
    /\ IsPresent(b.shapes)
    /\ IsPresent(b.metadata)
    /\ Get(b.storeSnapshot).store = ListedIds(Get(b.shapes))
    /\ Get(b.metadata).version = "2.0"
    /\ Get(b.metadata).shapeCount = Len(Get(b.shapes))

\* C20: every blob that autosave, manual save or template save sends, and
\* every blob they have left in a boards row or a templates row, holds the
\* store snapshot, the camera, metadata.version '2.0' and a
\* metadata.shapeCount equal to the length of its own shapes list.
C20_WrittenBlobsAreFull ==
    /\ \A s \in saves : IsFullBlob(s.payload)
    /\ \A i \in BoardIds :
          (rows[i].exists /\ rows[i].board_data # EmptyBlob) =>
              IsFullBlob(rows[i].board_data)
    /\ modal.pc \in {"auth", "insert"} => IsFullBlob(modal.data)
    /\ \A t \in TemplateIds :
          templateRows[t].exists => IsFullBlob(templateRows[t].template_data)

\* A save has written a blob of two shapes to the board's row and a
\* template save has written one to a templates row.
C20_Witness ==
    /\ appliedLog.last # 0
    /\ rows[1].board_data = appliedLog.payload
    /\ LegacyLen(rows[1].board_data) = 2
    /\ \E t \in TemplateIds :
          /\ templateRows[t].exists
          /\ LegacyLen(templateRows[t].template_data) >= 1

\* Where in the table a row is.
PlaceOf(table, r) == CHOOSE i \in DOMAIN table : table[i] = r

\* The select of loadChatHistory is answered with rows.
HistoryServed == hist.pc = "sent" /\ hist'.pc = "resp" /\ ~hist'.error

\* C21: board_chats only grows, one row at the end at a time, and the rows
\* it holds never change; what loadChatHistory is answered with is exactly
\* the rows of this board and this user, each once, a row inserted earlier
\* before a row inserted later; and these are the messages it shows, in
\* that order.
C21_ChatLogAppendOnlyOrdered ==
    [][/\ Len(chatRows') \in {Len(chatRows), Len(chatRows) + 1}
       /\ SubSeq(chatRows', 1, Len(chatRows)) = chatRows
       /\ HistoryServed =>
             LET data == hist'.data IN
               /\ {data[i] : i \in DOMAIN data} =
                     {r \in {chatRows[j] : j \in DOMAIN chatRows} :
                         r.board_id = cur /\ r.user_id = user}
               /\ \A i, j \in DOMAIN data :
                     i < j => PlaceOf(chatRows, data[i]) < PlaceOf(chatRows, data[j])
       /\ (hist.pc = "resp" /\ hist'.pc = "shown" /\ hist.data # <<>>) =>
             /\ Len(messages') = Len(hist.data)
             /\ \A i \in DOMAIN hist.data :
                   /\ messages'[i].role = hist.data[i].message_type
                   /\ messages'[i].content = hist.data[i].content]_vars

\* The history on show holds the user's message and then the assistant's,
\* although rows of another session lie before and between them in the
\* table.
C21_Witness ==
    /\ hist.pc = "shown"
    /\ Len(hist.data) = 2
    /\ Len(chatRows) = 4
    /\ chatRows[1].user_id = "u2"
    /\ chatRows[3].board_id = 2
    /\ Len(messages) = 2
    /\ messages[1].role = "user"
    /\ messages[2].role = "assistant"
    /\ messages[2].content = KeyMissing

\* C22: every board of the dashboard's list is a row the current user owns:
\* fetchBoards is answered with the user's own rows only, the row that
\* createBoard inserts carries the user's id and the trimmed name, which is
\* not blank, and that row is the one put at the head of the list.
C22_ListedBoardsAreOwn ==
    /\ [](\A b \in Range(boards) : rows[b] # NoRow /\ rows[b].user_id = Me)
    /\ [](fetch.pc \in {"resp", "shown"} =>
            \A b \in Range(fetch.data) : rows[b].user_id = Me)
    /\ [](create.pc = "sent" => Trim(create.name) # <<>>)
    /\ [][\A b \in BoardIds :
            (rows[b] = NoRow /\ rows'[b] # NoRow) =>
                /\ create.pc = "sent"
                /\ rows'[b].user_id = Me
                /\ rows'[b].name = Trim(create.name)
                /\ boards' = <<b>> \o create.closure]_vars

\* The list is on screen without the board of another user that the table
\* holds.
C22_Witness ==
    /\ ListOnScreen
    /\ boards = <<1>>
    /\ rows[2].exists
    /\ rows[2].user_id = "u2"

\* C23: every upload that handleFileUpload has issued to the bucket
\* board-images satisfies the bucket's INSERT policy for the user who is
\* signed in.
C23_UploadSatisfiesInsertPolicy ==
    \A i \in ImageIds :
        uploads[i] = "storing" => UploadPolicy("board-images", FilePath(i), user)

\* C24: a board view issues a save write only when its own load of the
\* board's stored blob has run to its end.
C24_NoSaveBeforeLoadCompletes ==
    [][nextSave' # nextSave => load.pc = "done"]_vars

\* C25: as long as a save write of the mounted view has not settled, were it
\* issued by the interval, the debounce timer or the Save button, the view's
\* saving indicator is true.
C25_SavingWhileAnySaveInFlight ==
    (mounted /\ \E s \in saves : s.epoch = epoch) => saving

\* The cleanup of the auto-save effect runs.
CleanupStep == listening /\ ~listening'

\* C26: the cleanup of the auto-save effect leaves no timer pending and
\* initiates no save, so a change whose timer had not fired is not written;
\* no timer is ever pending while the effect is not active, no save is
\* initiated while the view is unmounted, and an effect that starts later
\* starts with no timer pending.
C26_CleanupCancelsTimers ==
    /\ [](~listening => ~debounce)
    /\ [][/\ CleanupStep =>
                /\ ~debounce'
                /\ nextSave' = nextSave
                /\ saves' = saves
                /\ rows' = rows
          /\ ~mounted => nextSave' = nextSave
          /\ (~listening /\ listening') => ~debounce']_vars

\* The view was left with a change on the page that no save has captured:
\* nothing was ever written, nothing is in flight and no timer is pending.
C26_Witness ==
    /\ ~mounted
    /\ epoch = 1
    /\ ~debounce
    /\ loadLog.path = "snapshot"
    /\ page # Get(rows[1].board_data.storeSnapshot).store
    /\ saves = {}
    /\ nextSave = 1

\* A request to the model is out and not answered.
RequestInFlight == chat.pc = "fetch"

\* C27: a request to the model is in flight only while isLoading is true;
\* while isLoading is true no submission is accepted, by sendMessage or by
\* processScript, and no request is issued except the one of the
\* sendMessage call that set isLoading, once its insert has settled; a
\* request is never issued on top of one in flight.
C27_OneRequestAtATime ==
    /\ [](RequestInFlight => isLoading)
    /\ [][/\ isLoading => sends' = sends
          /\ (isLoading /\ ~RequestInFlight /\ RequestInFlight') =>
                chat.pc = "saveUser" /\ chat'.mode = "chat"
          /\ (RequestInFlight /\ RequestInFlight') => chat' = chat]_vars

\* A request is in flight, isLoading is true, and the submissions made now
\* are turned away.
C27_Witness ==
    /\ RequestInFlight
    /\ isLoading
    /\ sends = MaxSends
    /\ \E input \in Names : Trim(input) # <<>> /\ ~SubmitAccepted(input, isLoading)

\* sendMessage accepts a submission.
SendAccepted == sends' # sends /\ chat'.mode = "chat"

\* A sendMessage call is under way.
SendUnderWay == chat.mode = "chat" /\ chat.pc # "idle"

\* C28: an accepted sendMessage appends the user's message and issues its
\* insert; before the call ends exactly one assistant message is appended
\* after it, whatever the reply was, and its insert is issued; no other
\* message is appended and no other insert is made during the call, the
\* message of each insert is the one just appended and never the welcome
\* message, and no row holds the welcome message.
C28_TwoMessagesTwoInserts ==
    /\ [](\A i \in DOMAIN chatRows : chatRows[i].content # Welcome.content)
    /\ [](chat.pc = "saveUser" =>
            /\ chat.msg = messages[Len(messages)]
            /\ chat.msg.role = "user"
            /\ chat.msg.id # "welcome")
    /\ [](chat.pc = "saveAssistant" =>
            /\ chat.msg = messages[Len(messages)]
            /\ chat.msg.role = "assistant"
            /\ chat.msg.id # "welcome"
            /\ messages[Len(messages) - 1].role = "user")
    /\ [][/\ SendAccepted =>
                /\ Len(messages') = Len(messages) + 1
                /\ chat'.pc = "saveUser"
                /\ chatRows' = chatRows
          /\ (SendUnderWay /\ chat'.pc = "idle") =>
                /\ chat.pc = "saveAssistant"
                /\ messages' = messages
                /\ chatRows' \in {chatRows, Append(chatRows, ChatRow(chatRows, chat.msg))}
          /\ (SendUnderWay /\ chat.pc = "saveUser" /\ chat'.pc # "saveUser") =>
                /\ chatRows' \in {chatRows, Append(chatRows, ChatRow(chatRows, chat.msg))}
                /\ chat'.pc = "fetch" => messages' = messages
                /\ chat'.pc = "saveAssistant" => Len(messages') = Len(messages) + 1
          /\ (SendUnderWay /\ chat.pc = "fetch" /\ chat'.pc # "fetch") =>
                /\ Len(messages') = Len(messages) + 1
                /\ chatRows' = chatRows]_vars

\* A sendMessage whose reply held an update_board payload has ended: the
\* log holds the welcome message, the user's message and the confirmation,
\* and board_chats holds the two rows.
C28_Witness ==
    /\ chat.mode = "chat"
    /\ chat.pc = "idle"
    /\ sends = 1
    /\ Dispatch(ReplyText(chat.reply), chat.doc) = "{update_board}"
    /\ Len(messages) = 3
    /\ messages[1] = Welcome
    /\ messages[2].role = "user"
    /\ messages[3].content = <<"Updated the entire board!">>
    /\ Len(chatRows) = 2
    /\ chatRows[1].message_type = "user"
    /\ chatRows[2].message_type = "assistant"

\* handleLoadTemplate runs on this board's canvas.
TemplateLoadStep ==
    \E l \in LoadIds : tl[l].pc = "load" /\ tl'[l].pc = "done" /\ tl[l].mine /\ mounted

\* C29: handleLoadTemplate deletes the shapes of the page before it restores
\* anything: a template with neither a snapshot that loads nor a non-empty
\* legacy list leaves the page empty, whatever it held, and a legacy list
\* is created on the emptied page, one shape at most per entry.
C29_LoadClearsPageFirst ==
    [][TemplateLoadStep =>
         LET t == tmpl.template_data IN
           /\ (~SnapshotLoads(t) /\ ~HasLegacyShapes(t)) => page' = {}
           /\ (~SnapshotLoads(t) /\ HasLegacyShapes(t)) =>
                 Cardinality(page') <= Len(Get(t.shapes))]_vars

\* A template whose snapshot does not load and that has no legacy list was
\* loaded: loadSnapshot was tried, no shape was created, the page is empty.
C29_Witness ==
    /\ tmplLog = [path |-> "nothing", snapshotCalls |-> 1, createCalls |-> 0]
    /\ ~SnapshotLoads(tmpl.template_data)
    /\ ~HasLegacyShapes(tmpl.template_data)
    /\ \E l \in LoadIds : tl[l].pc = "done" /\ tl[l].loaded /\ tl[l].mine
    /\ page = {}

\* C30: handleSave goes on to getUser only with a name that is not blank and
\* a page that has shapes, and on to the insert only with a user; a
\* templates row is written only by an insert that succeeds, with that name
\* and those shapes. Every handleSave that gives up, for a blank name, an
\* empty page, no user or a failed insert, sets its error, leaves the modal
\* open and the table as it was, and leaves saving false.
C30_RefusedSaveKeepsModalOpen ==
    /\ []((modal.open /\ modal.pc = "idle") => ~modal.saving)
    /\ [](modal.pc # "idle" =>
            /\ modal.open
            /\ modal.saving
            /\ modal.name # <<>>
            /\ HasLegacyShapes(modal.data))
    /\ [][/\ templateRows' # templateRows =>
                /\ modal.pc = "insert"
                /\ modal' = ModalClosed
                /\ \E t \in TemplateIds :
                      /\ templateRows[t] = NoTemplateRow
                      /\ templateRows'[t].name = modal.name
                      /\ templateRows'[t].template_data = modal.data
          /\ (modal.open /\ modal.pc = "idle" /\ modal' # modal) =>
                \/ modal'.pc = "auth" /\ page # {}
                \/ /\ modal'.pc = "idle"
                   /\ modal'.open
                   /\ ~modal'.saving
                   /\ modal'.error \in {"Template name is required",
                                         "Cannot save empty board as template"}
                   /\ page = {} => modal'.error # ""
          /\ modal.pc = "auth" =>
                \/ modal'.pc \in {"auth", "insert"}
                \/ /\ modal'.pc = "idle"
                   /\ modal'.open
                   /\ ~modal'.saving
                   /\ modal'.error = "You must be logged in to save templates"
          /\ (modal.pc = "insert" /\ modal'.pc # "insert") =>
                \/ ~modal'.open /\ templateRows' # templateRows
                \/ /\ modal'.open
                   /\ ~modal'.saving
                   /\ modal'.error = "Failed to save template. Please try again."
                   /\ templateRows' = templateRows]_vars

\* An insert of handleSave has failed on a board that has shapes: the error
\* is shown in the open modal, saving is false, and the table holds no row.
C30_Witness ==
    /\ modal.open
    /\ modal.pc = "idle"
    /\ modal.error = "Failed to save template. Please try again."
    /\ ~modal.saving
    /\ page # {}
    /\ \A t \in TemplateIds : templateRows[t] = NoTemplateRow

\* C12: in sendMessage the request to the model is issued only in the step
\* in which the insert of the user's message settles, never before; and
\* where sendMessage goes from there does not depend on whether the insert
\* succeeded: with a key configured the request is issued, after a failed
\* insert as after a successful one.
C12_InsertSettlesBeforeRequest ==
    [][/\ (chat'.mode = "chat" /\ chat'.pc = "fetch" /\ chat.pc # "fetch")
            => chat.pc = "saveUser"
       /\ (chat.pc = "saveUser" /\ chat'.pc # "saveUser")
            => /\ chat'.pc = (IF apiKey THEN "fetch" ELSE "saveAssistant")
               /\ chat'.saved <=> (chatRows' # chatRows)
       /\ chat.pc = "saveUser" => messages[Len(messages)].role = "user"]_vars

\* The insert of the user's message has failed and the request is out.
C12_Witness ==
    /\ chat.pc = "fetch"
    /\ chat.mode = "chat"
    /\ ~chat.saved
    /\ chatRows = <<>>
    /\ apiKey
    /\ isLoading
    /\ messages[Len(messages)].role = "user"

\* C11: usage tracking is fire-and-forget. The increment call is issued only
\* by a handler whose usage-row insert has settled; a failed insert is
\* followed by the increment call and a failed increment by the load; no
\* handler ends in its catch, and every handler that has ended has invoked
\* onLoadTemplate, whether its tracking calls failed or not.
C11_TrackingFailureIsNotSurfaced ==
    /\ \A l \in LoadIds :
         /\ tl[l].pc # "caught"
         /\ tl[l].pc = "done" => tl[l].loaded
         /\ (tl[l].counted \/ tl[l].inserted) => tl[l].pc \in {"rpc", "locked", "load", "done"}
         /\ tl[l].pc = "locked" => rowLock = l

\* A load of this session whose insert and whose increment both failed has
\* put the template on the board.
C11_Witness ==
    \E l \in LoadIds :
        /\ tl[l].pc = "done"
        /\ tl[l].mine
        /\ tl[l].loaded
        /\ ~tl[l].inserted
        /\ ~tl[l].counted
        /\ usageRows = 0
        /\ tmpl.usage_count = usage0
        /\ tmplLog.path \in {"snapshot", "legacy"}
        /\ page # {}
====
